---- MODULE Spec2Model ----
(***************************************************************************)
(* The cache layer of db.py: one SQLite table `cache` keyed by             *)
(* (endpoint, symbol), written by set_cached_data, read and lazily purged  *)
(* by get_cached_data, and deleted from by clear_cache,                    *)
(* clear_symbol_cache and clear_expired_cache.                             *)
(*                                                                         *)
(* Time is counted in whole seconds.  `utc` is the real (UTC) clock, the   *)
(* one SQLite's CURRENT_TIMESTAMP and 'now' read; datetime.now() reads the *)
(* host's local clock, utc + tz.  Day 0 of the clock is a Monday.          *)
(***************************************************************************)
EXTENDS Integers, Sequences, FiniteSets, TLC

VARIABLES cache, utc, tz, last, ncalls

\* the connections of concurrent callers of db.py and the writer that holds
\* the database file's write lock
VARIABLES conns, db_lock

\* the running call of one of the other functions of the repository: its
\* argument, its position, its local variables and what it gave back
VARIABLES arg, pc, attempt, lst, derive, out

\* the variables the cache operations of one process leave alone
others == <<conns, db_lock, arg, pc, attempt, lst, derive, out>>

vars == <<cache, utc, tz, last, ncalls, conns, db_lock, arg, pc, attempt,
          lst, derive, out>>

----------------------------------------------------------------------------
(* Bounds of the model *)

\* how many calls of the cache functions, requests and advances of the
\* clock one behaviour has; a call that has started runs to its end
MaxCalls == 3

\* requests, or callers of db.py, running at the same time
MaxCallers == 2

Callers == 1..MaxCallers

----------------------------------------------------------------------------
(* Inputs *)

\* Python None, as an argument of clear_cache (endpoint=None / symbol=None)
NONE == "<None>"

Endpoints == {"", "price"}

Symbols == {"", "AAPL"}

\* amounts by which the clock advances between two calls: 1 h, 23 h, 25 h
TickSteps == {3600, 82800, 90000}

\* the hosts the process may start on: the UTC instant of the start and the
\* zone offset (local - UTC) of the host's clock.  Wednesday 13:00 and
\* Friday 13:00 on a host set to UTC, Wednesday 13:00 UTC on a host set to
\* UTC+2 (15:00 local)
Hosts ==
  { [start |-> 2 * 86400 + 13 * 3600, tz |-> 0],
    [start |-> 4 * 86400 + 13 * 3600, tz |-> 0],
    [start |-> 2 * 86400 + 13 * 3600, tz |-> 7200] }

----------------------------------------------------------------------------
(* Python values and JSON text.  A value is a tree [kind, items]; JSON     *)
(* text is kept as the tree of its tokens.                                 *)

PyNone == [kind |-> "None", items |-> <<>>]

PyInt1 == [kind |-> "int1", items |-> <<>>]

\* [1, {"a": None}]
PyNested ==
  [kind |-> "list",
   items |-> << PyInt1,
                [kind |-> "dict",
                 items |-> << [kind |-> "key_a", items |-> <<PyNone>>] >>] >>]

\* {1, 2}: a Python set, which json.dumps rejects with TypeError
PySetObj == [kind |-> "set", items |-> <<>>]

\* (1,): a tuple, which serialize_value and json.dumps both turn into a list
PyTuple1 == [kind |-> "tuple", items |-> <<PyInt1>>]

\* the str '[1, {"a": null}]': the JSON text of PyNested, as the data
\* functions of flow.py return their results
PyStrJson == [kind |-> "str_json", items |-> <<>>]

\* the str 'BUY': plain text, as the AI functions return it
PyStrText == [kind |-> "str_text", items |-> <<>>]

\* the payloads handed to set_cached_data
Payloads == {PyNone, PyNested, PySetObj}

\* mutant: json.dumps given default=str, which accepts every object
JsonSerializable_default_str(v) == TRUE

RECURSIVE JsonSerializable(_)
\* json.dumps(v) returns instead of raising TypeError
JsonSerializable(v) ==
  /\ v.kind # "set"
  /\ \A i \in 1..Len(v.items) : JsonSerializable(v.items[i])

DumpsKind(k) ==
  CASE k = "None"  -> "null"
    [] k = "int1"  -> "1"
    [] k = "dict"  -> "object"
    [] k = "list"  -> "array"
    [] k = "tuple" -> "array"
    [] k = "key_a" -> "member_a"
    [] k = "str_json" -> "string_json"
    [] k = "str_text" -> "string_text"
    [] OTHER       -> "TypeError"

LoadsKind(k) ==
  CASE k = "null"     -> "None"
    [] k = "1"        -> "int1"
    [] k = "object"   -> "dict"
    [] k = "array"    -> "list"
    [] k = "member_a" -> "key_a"
    [] k = "string_json" -> "str_json"
    [] k = "string_text" -> "str_text"
    [] OTHER          -> "JSONDecodeError"

RECURSIVE DumpsItems(_)
RECURSIVE Dumps(_)
\* json.dumps
Dumps(v) == [kind |-> DumpsKind(v.kind), items |-> DumpsItems(v.items)]
DumpsItems(s) ==
  IF s = <<>> THEN <<>> ELSE <<Dumps(Head(s))>> \o DumpsItems(Tail(s))

RECURSIVE ValidJson(_)
\* json.loads(t) returns instead of raising JSONDecodeError
ValidJson(t) ==
  /\ LoadsKind(t.kind) # "JSONDecodeError"
  /\ \A i \in 1..Len(t.items) : ValidJson(t.items[i])

RECURSIVE LoadsItems(_)
RECURSIVE Loads(_)
\* json.loads
Loads(t) == [kind |-> LoadsKind(t.kind), items |-> LoadsItems(t.items)]
LoadsItems(s) ==
  IF s = <<>> THEN <<>> ELSE <<Loads(Head(s))>> \o LoadsItems(Tail(s))

----------------------------------------------------------------------------
(* Clocks and timestamps *)

MARKET_OPEN_TIME == 9 * 3600 + 30 * 60

MARKET_CLOSE_TIME == 16 * 3600

\* SQLite CURRENT_TIMESTAMP: the UTC instant formatted 'YYYY-MM-DD HH:MM:SS',
\* kept as <<day, hour, minute, second>>
CurrentTimestamp(t) ==
  << t \div 86400, (t % 86400) \div 3600, (t % 3600) \div 60, t % 60 >>

\* datetime.fromisoformat: the naive datetime the text spells
fromisoformat(ts) == ts[1] * 86400 + ts[2] * 3600 + ts[3] * 60 + ts[4]

\* datetime.fromisoformat accepts the text (it raises ValueError otherwise)
IsIsoFormat(ts) ==
  ts[1] >= 0 /\ ts[2] \in 0..23 /\ ts[3] \in 0..59 /\ ts[4] \in 0..59

\* datetime.now(): the host's local wall clock, naive
datetime_now == utc + tz

\* datetime.weekday(): Monday = 0 ... Sunday = 6
weekday(t) == (t \div 86400) % 7

\* datetime.time(): seconds since local midnight
time_of_day(t) == t % 86400

\* mutant: the close boundary excluded (< for <=)
is_market_open_now_close_excluded ==
  LET now == datetime_now IN
    IF ~(weekday(now) < 5)
      THEN FALSE
      ELSE /\ MARKET_OPEN_TIME <= time_of_day(now)
           /\ time_of_day(now) < MARKET_CLOSE_TIME

is_market_open_now ==
  LET now == datetime_now IN
    IF ~(weekday(now) < 5)
      THEN FALSE
      ELSE /\ MARKET_OPEN_TIME <= time_of_day(now)
           /\ time_of_day(now) <= MARKET_CLOSE_TIME

\* mutant: the 24-hour rule left out, as the function's docstring describes
\* ("if market is closed: never expire")
should_expire_cache_no_day_limit(cached_at_str) ==
  LET cache_age_seconds == datetime_now - fromisoformat(cached_at_str)
  IN  is_market_open_now /\ cache_age_seconds > 3600

\* a timestamp that does not parse lands in the `except` branch: expire
should_expire_cache(cached_at_str) ==
  LET cached_at         == fromisoformat(cached_at_str)
      now               == datetime_now
      cache_age_seconds == now - cached_at
  IN  IF ~IsIsoFormat(cached_at_str)
        THEN TRUE
        ELSE IF cache_age_seconds > 86400
               THEN TRUE
               ELSE IF is_market_open_now /\ cache_age_seconds > 3600
                      THEN TRUE
                      ELSE FALSE

----------------------------------------------------------------------------
(* The table *)

NoRow ==
  [endpoint |-> NONE, symbol |-> NONE, data |-> Dumps(PyNone),
   cached_at |-> <<0, 0, 0, 0>>, market_aware |-> 0]

\* the result of the last call, as its caller sees it, with the row the call
\* fetched (get) or conflicted with (set); for a lookup, the thread it runs
\* on, how far it has come (phase), and in prior the call that had
\* returned in the step right before the lookup began, kept while the
\* lookup runs with no step of another call in between
NoCall ==
  [op |-> "none", endpoint |-> NONE, symbol |-> NONE, value |-> PyNone,
   flag |-> 0, found |-> FALSE, row |-> NoRow, hit |-> FALSE,
   ret |-> PyNone, ok |-> FALSE, count |-> 0,
   total |-> 0, valid |-> 0, expired |-> 0, by_endpoint |-> <<>>,
   raised |-> "none", fcalls |-> 0, setcalls |-> 0, setarg |-> PyNone,
   fault |-> "none", setfault |-> "none",
   phase |-> "done", alone |-> TRUE, thread |-> 0,
   prior |->
     [op |-> "none", endpoint |-> NONE, symbol |-> NONE, value |-> PyNone,
      found |-> FALSE, ret |-> PyNone, ok |-> FALSE, fcalls |-> 0,
      setcalls |-> 0, raised |-> "none", fault |-> "none", alone |-> TRUE,
      count |-> 0]]

\* rows of tbl for which WHERE endpoint = e AND symbol = s holds
KeyIndexes(tbl, e, s) ==
  {i \in 1..Len(tbl) : tbl[i].endpoint = e /\ tbl[i].symbol = s}

Min(S) == CHOOSE x \in S : \A y \in S : x <= y

\* DELETE FROM cache WHERE endpoint = e AND symbol = s
DeleteKey(tbl, e, s) ==
  LET Keep(r) == ~(r.endpoint = e /\ r.symbol = s) IN SelectSeq(tbl, Keep)

\* mutant: a plain INSERT into a table without the UNIQUE constraint
Upsert_plain_insert(tbl, e, s, data_str, flag, now) ==
  Append(tbl, [endpoint |-> e, symbol |-> s, data |-> data_str,
               cached_at |-> CurrentTimestamp(now), market_aware |-> flag])

\* mutant: ON CONFLICT updates data and market_aware and keeps the old
\* row's cached_at
Upsert_keeps_cached_at(tbl, e, s, data_str, flag, now) ==
  LET hits == KeyIndexes(tbl, e, s) IN
    IF hits = {}
      THEN Append(tbl, [endpoint |-> e, symbol |-> s, data |-> data_str,
                        cached_at |-> CurrentTimestamp(now),
                        market_aware |-> flag])
      ELSE [i \in 1..Len(tbl) |->
              IF i \in hits
                THEN [tbl[i] EXCEPT !.data = data_str,
                                    !.market_aware = flag]
                ELSE tbl[i]]

\* INSERT ... ON CONFLICT(endpoint, symbol) DO UPDATE SET ...
Upsert(tbl, e, s, data_str, flag, now) ==
  LET hits == KeyIndexes(tbl, e, s) IN
    IF hits = {}
      THEN Append(tbl, [endpoint |-> e, symbol |-> s, data |-> data_str,
                        cached_at |-> CurrentTimestamp(now),
                        market_aware |-> flag])
      ELSE [i \in 1..Len(tbl) |->
              IF i \in hits
                THEN [tbl[i] EXCEPT !.data = data_str,
                                    !.cached_at = CurrentTimestamp(now),
                                    !.market_aware = flag]
                ELSE tbl[i]]

\* mutant: the expiration rule applied whatever the row's flag
RowExpired_ignores_flag(row) == should_expire_cache(row.cached_at)

\* `if market_aware and _should_expire_cache(cached_at)`
RowExpired(row) == row.market_aware # 0 /\ should_expire_cache(row.cached_at)

----------------------------------------------------------------------------
(* Operations *)

\* a thread of the pool with no call running on it
NoRequest ==
  [pc |-> "idle", op |-> "none", endpoint |-> NONE, symbol |-> NONE,
   fault |-> "none", alone |-> TRUE, row |-> NoRow, count |-> 0]

\* the threads of the pool are interchangeable: a call takes the first
\* free one
FirstFree(r) ==
  /\ conns[r].pc = "idle"
  /\ \A q \in Callers : q < r => conns[q].pc # "idle"

\* thread q runs a with_cache or with_ai_cache request on the key that is
\* between the start of its lookup and its return
InFlightOn(q, endpoint, symbol) ==
  /\ conns[q].pc # "idle" /\ conns[q].op # "get"
  /\ conns[q].endpoint = endpoint /\ conns[q].symbol = symbol

\* another request is between its lookup and its return on the same key
KeyInFlight(r, endpoint, symbol) ==
  \E q \in Callers \ {r} : InFlightOn(q, endpoint, symbol)

\* the pool after the lookup of call r has run its SELECT and did not
\* return: at is "test" when a row was fetched and the test of the row is
\* to come, "wait" when a request goes on to flow_function.  alone keeps
\* whether no other request was between lookup and return on the same key
\* at any moment of the request, count how many rows its lookup deleted
Started(r, at, op, endpoint, symbol, get_fault, row) ==
  [q \in Callers |->
     IF q = r
       THEN [pc |-> at, op |-> op, endpoint |-> endpoint,
             symbol |-> symbol, fault |-> get_fault,
             alone |-> op = "get" \/ ~KeyInFlight(r, endpoint, symbol),
             row |-> row, count |-> 0]
       ELSE IF op # "get" /\ InFlightOn(q, endpoint, symbol)
         THEN [conns[q] EXCEPT !.alone = FALSE]
         ELSE conns[q]]

\* no concurrent caller and no other function running
Idle ==
  /\ conns = <<>>
  /\ db_lock = 0
  /\ arg = NONE
  /\ pc = "idle"
  /\ attempt = 0
  /\ lst = <<>>
  /\ derive = 0
  /\ out = NONE

\* what the calls of db.py and the requests of flow_api.py leave alone
DbFrame == UNCHANGED <<db_lock, arg, pc, attempt, lst, derive, out>>

\* the table is created empty; no call runs on any thread of the pool
Init ==
  /\ cache = <<>>
  /\ \E h \in Hosts : utc = h.start /\ tz = h.tz
  /\ last = NoCall
  /\ ncalls = 0
  /\ conns = [r \in Callers |-> NoRequest]
  /\ db_lock = 0 /\ arg = NONE /\ pc = "idle" /\ attempt = 0
  /\ lst = <<>> /\ derive = 0 /\ out = NONE

\* time passes between two calls
Tick(d) ==
  /\ ncalls < MaxCalls
  /\ ncalls' = ncalls + 1
  /\ utc' = utc + d
  /\ last' = [NoCall EXCEPT !.op = "tick"]
  /\ UNCHANGED <<cache, tz>>

\* what can go wrong in the storage layer during one call: nothing, or
\* sqlite3 raising (the file cannot be opened, an I/O error on a statement)
Faults == {"none", "OperationalError"}

\* get_cached_data, the SELECT on table tbl and fetchone: the row of the
\* key, or none when the key has no row or sqlite3 raised
FetchOne(tbl, endpoint, symbol, fault) ==
  LET hits == KeyIndexes(tbl, endpoint, symbol) IN
    IF fault # "none" \/ hits = {}
      THEN [found |-> FALSE, row |-> NoRow]
      ELSE [found |-> TRUE, row |-> tbl[Min(hits)]]

\* get_cached_data, from the unpacking of the row fetched to the DELETE or
\* the return: the test of the row at the clock of this moment, whether
\* the DELETE of the key is to come (purge), and what the call returns
\* (json.loads raising lands in the `except`, which returns None)
TestRow(row) ==
  IF RowExpired(row)
    THEN [purge |-> TRUE, hit |-> FALSE, ret |-> PyNone]
    ELSE IF ~ValidJson(row.data)
      THEN [purge |-> FALSE, hit |-> FALSE, ret |-> PyNone]
      ELSE [purge |-> FALSE, hit |-> TRUE, ret |-> Loads(row.data)]

\* set_cached_data on table tbl at UTC instant now: the table it leaves and
\* what it returns
SetCached(tbl, endpoint, data, symbol, market_aware, fault, now) ==
  IF fault # "none" \/ ~JsonSerializable(data)
    THEN [tbl |-> tbl, ok |-> FALSE]
    ELSE [tbl |-> Upsert(tbl, endpoint, symbol, Dumps(data),
                         IF market_aware THEN 1 ELSE 0, now),
          ok |-> TRUE]

\* get_cached_data on thread r, called on its own (op "get") or by
\* with_cache or with_ai_cache, up to fetchone: the connection, the SELECT
\* and the fetch of the row, after which the connection holds no lock.
\* With no row (or sqlite3 raising, which the `except` turns into None)
\* get_cached_data returns None here, and a request goes on to
\* flow_function; with a row, the test of the row is to come
Lookup(r, op, endpoint, symbol, fault) ==
  LET f    == FetchOne(cache, endpoint, symbol, fault)
      \* the call of set_cached_data, with_cache or with_ai_cache that
      \* returned in the step before this one, if there is one
      prior == IF last.op \in {"set", "with_cache", "with_ai_cache"}
                  /\ last.phase = "done"
                 THEN [op |-> last.op, endpoint |-> last.endpoint,
                       symbol |-> last.symbol, value |-> last.value,
                       found |-> last.found, ret |-> last.ret,
                       ok |-> last.ok, fcalls |-> last.fcalls,
                       setcalls |-> last.setcalls, raised |-> last.raised,
                       fault |-> last.fault, alone |-> last.alone,
                       count |-> last.count]
                 ELSE NoCall.prior
      call == [NoCall EXCEPT !.op = op, !.endpoint = endpoint,
                             !.symbol = symbol, !.fault = fault,
                             !.found = f.found, !.row = f.row,
                             !.thread = r, !.prior = prior]
  IN
    /\ FirstFree(r)
    /\ IF f.found
         THEN /\ conns' = Started(r, "test", op, endpoint, symbol, fault,
                                  f.row)
              /\ last' = [call EXCEPT !.phase = "test"]
         ELSE IF op = "get"
           THEN /\ conns' = conns
                /\ last' = call
           ELSE /\ conns' = Started(r, "wait", op, endpoint, symbol, fault,
                                    NoRow)
                /\ last' = [call EXCEPT !.phase = "wait"]
    /\ UNCHANGED <<cache, utc, tz>>

\* get_cached_data called on its own
get_cached_data(r, endpoint, symbol, fault) ==
  /\ ncalls < MaxCalls
  /\ ncalls' = ncalls + 1
  /\ Lookup(r, "get", endpoint, symbol, fault)

\* the lookup on thread r goes on with the row it fetched: the test
\* `if market_aware and _should_expire_cache(cached_at)`, which reads the
\* clock now, and for a row that is kept `return json.loads(data_str)`.
\* An expired row has its DELETE to come.  A get_cached_data called on
\* its own returns what was settled; with_cache and with_ai_cache return
\* a payload that is not None to their caller and go on to flow_function
\* otherwise
get_cached_data_test(r) ==
  LET q    == conns[r]
      t    == TestRow(q.row)
      call == [NoCall EXCEPT !.op = q.op, !.endpoint = q.endpoint,
                             !.symbol = q.symbol, !.fault = q.fault,
                             !.found = TRUE, !.row = q.row, !.thread = r,
                             !.prior = IF last.thread = r
                                          /\ last.phase = "test"
                                        THEN last.prior ELSE NoCall.prior]
  IN
    /\ q.pc = "test"
    /\ IF t.purge
         THEN /\ conns' = [conns EXCEPT ![r].pc = "purge"]
              /\ last' = [call EXCEPT !.phase = "purge"]
         ELSE IF q.op = "get" \/ t.ret # PyNone
           THEN /\ conns' = [conns EXCEPT ![r] = NoRequest]
                /\ last' = [call EXCEPT !.hit = t.hit, !.ret = t.ret]
           ELSE /\ conns' = [conns EXCEPT ![r].pc = "wait",
                                          ![r].row = NoRow]
                /\ last' = [call EXCEPT !.phase = "wait", !.ret = t.ret]
    /\ UNCHANGED <<cache, utc, tz, ncalls>>

\* the lookup on thread r goes on after its test found the row expired:
\* DELETE FROM cache WHERE endpoint = ? AND symbol = ? on the table as it
\* is now, the commit at the exit of the `with` block, and `return None`;
\* when sqlite3 raises, nothing is deleted and the `except` returns None.
\* A get_cached_data called on its own has returned; one called by
\* with_cache or with_ai_cache has returned to it, and the request goes on
\* to flow_function
get_cached_data_delete(r, fault) ==
  LET q == conns[r]
      after == IF fault = "none" THEN DeleteKey(cache, q.endpoint, q.symbol)
               ELSE cache
  IN
    /\ q.pc = "purge"
    /\ cache' = after
    /\ conns' = IF q.op = "get"
                  THEN [conns EXCEPT ![r] = NoRequest]
                  ELSE [conns EXCEPT ![r].pc = "wait", ![r].row = NoRow,
                                     ![r].count = Len(cache) - Len(after),
                                     ![r].fault = IF fault # "none"
                                                    THEN fault ELSE @]
    /\ last' = [NoCall EXCEPT !.op = "purge", !.endpoint = q.endpoint,
                              !.symbol = q.symbol, !.fault = fault,
                              !.found = TRUE, !.row = q.row,
                              !.thread = r, !.ret = PyNone,
                              !.count = Len(cache) - Len(after),
                              !.phase = IF q.op = "get" THEN "done"
                                        ELSE "wait"]
    /\ UNCHANGED <<utc, tz, ncalls>>

set_cached_data(endpoint, data, symbol, market_aware, fault) ==
  LET hits == KeyIndexes(cache, endpoint, symbol)
      st   == SetCached(cache, endpoint, data, symbol, market_aware, fault, utc)
      call == [NoCall EXCEPT !.op = "set", !.endpoint = endpoint,
                             !.symbol = symbol, !.value = data,
                             !.setfault = fault,
                             !.flag = IF market_aware THEN 1 ELSE 0]
  IN
    /\ ncalls < MaxCalls
    /\ ncalls' = ncalls + 1
    /\ cache' = st.tbl
    /\ last' = IF st.ok
                 THEN [call EXCEPT !.ok = TRUE, !.found = (hits # {}),
                                   !.row = IF hits = {} THEN NoRow
                                           ELSE cache[Min(hits)]]
                 ELSE call
    /\ UNCHANGED <<utc, tz>>

\* Python truthiness of an argument that is None or a string
Truthy(x) == x # NONE /\ x # ""

\* the rows clear_cache leaves in tbl: the branch is chosen by the truthiness
\* of the arguments, the DELETE filters by equality
clear_cache_rows(tbl, endpoint, symbol) ==
  LET Keep(r) ==
        IF Truthy(endpoint) /\ Truthy(symbol)
          THEN ~(r.endpoint = endpoint /\ r.symbol = symbol)
          ELSE IF Truthy(endpoint)
                 THEN ~(r.endpoint = endpoint)
                 ELSE IF Truthy(symbol)
                        THEN ~(r.symbol = symbol)
                        ELSE FALSE
  IN SelectSeq(tbl, Keep)

clear_cache(endpoint, symbol) ==
  LET after == clear_cache_rows(cache, endpoint, symbol)
  IN
    /\ cache' = after
    /\ last' = [NoCall EXCEPT !.op = "clear", !.endpoint = endpoint,
                              !.symbol = symbol,
                              !.count = Len(cache) - Len(after)]
    /\ ncalls < MaxCalls
    /\ ncalls' = ncalls + 1
    /\ UNCHANGED <<utc, tz>>

clear_symbol_cache(symbol) ==
  LET Keep(r) == ~(r.symbol = symbol)
      after == SelectSeq(cache, Keep)
  IN
    /\ cache' = after
    /\ last' = [NoCall EXCEPT !.op = "clear_symbol", !.symbol = symbol,
                              !.count = Len(cache) - Len(after)]
    /\ ncalls < MaxCalls
    /\ ncalls' = ncalls + 1
    /\ UNCHANGED <<utc, tz>>

\* the WHERE clause of clear_expired_cache and get_cache_stats, evaluated by
\* SQLite on UTC 'now'; julianday and DATE of text that is no timestamp are
\* NULL, and the row is not matched
SqlExpired(r) ==
  /\ r.market_aware = 1
  /\ IsIsoFormat(r.cached_at)
  /\ \/ utc - fromisoformat(r.cached_at) > 86400
     \/ /\ utc \div 86400 # r.cached_at[1]
        /\ ((utc + 4 * 3600) % 86400) \div 60 < 9 * 60 + 30

clear_expired_cache ==
  LET Keep(r) == ~SqlExpired(r)
      after == SelectSeq(cache, Keep)
  IN
    /\ cache' = after
    /\ last' = [NoCall EXCEPT !.op = "clear_expired",
                              !.count = Len(cache) - Len(after)]
    /\ ncalls < MaxCalls
    /\ ncalls' = ncalls + 1
    /\ UNCHANGED <<utc, tz>>

\* the endpoint names in the order of SQLite's BINARY collation, which is the
\* order in which GROUP BY endpoint walks idx_endpoint_symbol
EndpointsSorted == <<"", "price">>

\* mutant: the groups count only the rows get_cached_data would still return
GroupByEndpoint_valid_only(tbl) ==
  LET Count(e) == Cardinality({i \in 1..Len(tbl) :
                                 tbl[i].endpoint = e /\ ~RowExpired(tbl[i])})
      Present(e) == Count(e) > 0
      groups == SelectSeq(EndpointsSorted, Present)
  IN [i \in 1..Len(groups) |->
        [endpoint |-> groups[i], count |-> Count(groups[i])]]

\* SELECT endpoint, COUNT(*) FROM cache GROUP BY endpoint
GroupByEndpoint(tbl) ==
  LET Count(e) == Cardinality({i \in 1..Len(tbl) : tbl[i].endpoint = e})
      Present(e) == Count(e) > 0
      groups == SelectSeq(EndpointsSorted, Present)
  IN [i \in 1..Len(groups) |->
        [endpoint |-> groups[i], count |-> Count(groups[i])]]

\* the calls of db.py on every key, each get_cached_data on a thread of the
\* pool and open to the other calls between its SELECT, its test and its
\* DELETE, while the clock runs
Next ==
  \/ \E d \in TickSteps : Tick(d) /\ UNCHANGED conns /\ DbFrame
  \/ \E r \in Callers, e \in Endpoints, s \in Symbols :
       get_cached_data(r, e, s, "none") /\ DbFrame
  \/ \E r \in Callers : get_cached_data_test(r) /\ DbFrame
  \/ \E r \in Callers : get_cached_data_delete(r, "none") /\ DbFrame
  \/ \E e \in Endpoints, s \in Symbols, v \in Payloads, m \in BOOLEAN :
       set_cached_data(e, v, s, m, "none") /\ UNCHANGED conns /\ DbFrame
  \/ \E e \in Endpoints \cup {NONE}, s \in Symbols \cup {NONE} :
       clear_cache(e, s) /\ UNCHANGED conns /\ DbFrame
  \/ \E s \in Symbols : clear_symbol_cache(s) /\ UNCHANGED conns /\ DbFrame
  \/ clear_expired_cache /\ UNCHANGED conns /\ DbFrame

Spec == Init /\ [][Next]_vars

----------------------------------------------------------------------------
(* get_cache_stats next to the writers.  The call runs three SELECT        *)
(* statements on one connection with no transaction open (sqlite3 opens    *)
(* one only before an INSERT, UPDATE or DELETE): each statement reads the  *)
(* table as committed when it runs and keeps no lock afterwards, so the    *)
(* commit of another request, which FastAPI runs on another thread of its  *)
(* pool, may fall between two of them.  conns is the call in progress.     *)

\* no get_cache_stats call in progress
NoStats == [pc |-> "idle", total |-> 0, expired |-> 0, clean |-> TRUE]

\* symbols the writers store under
StatsSymbols == {"", "AAPL"}

\* what this specification leaves alone
StatsFrame == UNCHANGED <<db_lock, arg, pc, attempt, lst, derive, out>>

InitStats ==
  /\ cache = <<>>
  /\ \E h \in Hosts : utc = h.start /\ tz = h.tz
  /\ last = NoCall
  /\ ncalls = 0
  /\ conns = NoStats
  /\ db_lock = 0 /\ arg = NONE /\ pc = "idle" /\ attempt = 0
  /\ lst = <<>> /\ derive = 0 /\ out = NONE

\* SELECT COUNT(*) FROM cache, and total = cursor.fetchone()[0]
stats_count ==
  /\ conns.pc = "idle"
  /\ conns' = [NoStats EXCEPT !.pc = "expired", !.total = Len(cache)]
  /\ UNCHANGED <<cache, utc, tz, last, ncalls>>

\* SELECT COUNT(*) FROM cache WHERE market_aware = 1 AND (...), and
\* expired = cursor.fetchone()[0]
stats_expired ==
  /\ conns.pc = "expired"
  /\ conns' = [conns EXCEPT !.pc = "group",
                            !.expired = Len(SelectSeq(cache, SqlExpired))]
  /\ UNCHANGED <<cache, utc, tz, last, ncalls>>

\* SELECT endpoint, COUNT(*) ... GROUP BY endpoint, and the return of the
\* dict; ok tells that no other request committed between the statements
stats_group ==
  /\ conns.pc = "group"
  /\ last' = [NoCall EXCEPT !.op = "stats", !.total = conns.total,
                            !.valid = conns.total - conns.expired,
                            !.expired = conns.expired,
                            !.by_endpoint = GroupByEndpoint(cache),
                            !.ok = conns.clean]
  /\ conns' = NoStats
  /\ UNCHANGED <<cache, utc, tz, ncalls>>

\* the commit of another request, seen from the call in progress
OtherCommit ==
  conns' = IF conns.pc = "idle" THEN conns ELSE [conns EXCEPT !.clean = FALSE]

NextStats ==
  \/ \E d \in TickSteps : Tick(d) /\ UNCHANGED conns /\ StatsFrame
  \/ \E e \in Endpoints, s \in StatsSymbols, m \in BOOLEAN :
       set_cached_data(e, PyNested, s, m, "none") /\ OtherCommit
         /\ StatsFrame
  \/ clear_cache(NONE, NONE) /\ OtherCommit /\ StatsFrame
  \/ stats_count /\ StatsFrame
  \/ stats_expired /\ StatsFrame
  \/ stats_group /\ StatsFrame

SpecStats == InitStats /\ [][NextStats]_vars

----------------------------------------------------------------------------
(* The read-through wrappers of flow_api.py over the cache store, with the *)
(* storage layer allowed to fault and rows allowed to be malformed.  The   *)
(* handlers are plain `def` functions, which FastAPI runs on the threads   *)
(* of a pool: a request looks the key up, waits for flow_function (a call  *)
(* over the network, or minutes of an AI model) with no lock held, and     *)
(* stores the result afterwards, while the clock runs and other requests   *)
(* do the same.  conns is the pool: the requests that are waiting.         *)

\* the path parameter {symbol} as clients spell it
Spellings == {"aapl", "AAPL"}

\* what a data function of flow.py returns
ProviderResults == {PyNone, PyTuple1, PyStrJson}

\* what an AI function of flow.py returns: None when Ollama gave no answer
AiResults == {PyNone, PyStrText, PyStrJson}

\* text in the data column that is no JSON
Garbage == [kind |-> "garbage", items |-> <<>>]

\* text in the cached_at column that is no timestamp
MalformedTimestamp == <<0, 99, 0, 0>>

RECURSIVE serialize_items(_)
RECURSIVE serialize_value(_)
\* serialize_value: lists and tuples become lists, recursively; what it does
\* not know is returned as it is
serialize_value(obj) ==
  [kind  |-> IF obj.kind = "tuple" THEN "list" ELSE obj.kind,
   items |-> serialize_items(obj.items)]
serialize_items(s) ==
  IF s = <<>> THEN <<>>
  ELSE <<serialize_value(Head(s))>> \o serialize_items(Tail(s))

\* isinstance(result, str)
IsStr(v) == v.kind \in {"str_json", "str_text"}

\* json.loads(v) of a Python str returns instead of raising JSONDecodeError
IsJsonText(v) == v = PyStrJson

\* json.loads of the str that holds JSON text
json_loads(v) == PyNested

\* something outside the program rewrites a column of row i of the file
corrupt_row(i, column) ==
  /\ ncalls < MaxCalls
  /\ ncalls' = ncalls + 1
  /\ i \in 1..Len(cache)
  /\ cache' = [cache EXCEPT ![i] =
                 IF column = "data"
                   THEN [@ EXCEPT !.data = Garbage]
                   ELSE [@ EXCEPT !.cached_at = MalformedTimestamp]]
  /\ last' = [NoCall EXCEPT !.op = "corrupt"]
  /\ UNCHANGED <<utc, tz>>

\* with_cache on thread r up to fetchone of its get_cached_data
with_cache_get(r, endpoint, symbol, get_fault) ==
  /\ ncalls < MaxCalls
  /\ ncalls' = ncalls + 1
  /\ Lookup(r, "with_cache", endpoint, symbol, get_fault)

\* mutant: the fresh result is returned without being stored
with_cache_return_without_set(r, result, set_fault) ==
  LET q    == conns[r]
      call == [NoCall EXCEPT !.op = "with_cache", !.endpoint = q.endpoint,
                             !.symbol = q.symbol, !.fault = q.fault,
                             !.alone = q.alone, !.count = q.count,
                             !.thread = r]
      parsed == IF IsStr(result) THEN json_loads(result) ELSE result
      serialized_result == serialize_value(parsed)
  IN
    /\ q.pc = "wait" /\ q.op = "with_cache"
    /\ conns' = [conns EXCEPT ![r] = NoRequest]
    /\ last' = [call EXCEPT !.value = result, !.fcalls = 1,
                            !.ret = serialized_result]
    /\ UNCHANGED <<cache, utc, tz, ncalls>>

\* with_cache from the return of flow_function, which gave result, to its
\* own return: json.loads of a str, serialize_value, and set_cached_data on
\* a second connection, which stamps the row with the time of this moment
with_cache_return(r, result, set_fault) ==
  LET q    == conns[r]
      call == [NoCall EXCEPT !.op = "with_cache", !.endpoint = q.endpoint,
                             !.symbol = q.symbol, !.fault = q.fault,
                             !.alone = q.alone, !.count = q.count,
                             !.thread = r]
  IN
    /\ q.pc = "wait" /\ q.op = "with_cache"
    /\ conns' = [conns EXCEPT ![r] = NoRequest]
    /\ IF IsStr(result) /\ ~IsJsonText(result)
         THEN /\ last' = [call EXCEPT !.value = result, !.fcalls = 1,
                                      !.raised = "JSONDecodeError"]
              /\ UNCHANGED <<cache, utc, tz, ncalls>>
         ELSE LET parsed == IF IsStr(result) THEN json_loads(result)
                            ELSE result
                  serialized_result == serialize_value(parsed)
                  st == SetCached(cache, q.endpoint, serialized_result,
                                  q.symbol, TRUE, set_fault, utc)
              IN /\ cache' = st.tbl
                 /\ last' = [call EXCEPT !.value = result, !.fcalls = 1,
                                         !.setcalls = 1,
                                         !.setarg = serialized_result,
                                         !.setfault = set_fault,
                                         !.flag = 1, !.ok = st.ok,
                                         !.ret = serialized_result]
                 /\ UNCHANGED <<utc, tz, ncalls>>

\* with_ai_cache on thread r up to fetchone of its get_cached_data
with_ai_cache_get(r, endpoint, symbol, get_fault) ==
  /\ ncalls < MaxCalls
  /\ ncalls' = ncalls + 1
  /\ Lookup(r, "with_ai_cache", endpoint, symbol, get_fault)

\* mutant: a None from the AI function is cached and returned like any
\* other result
with_ai_cache_return_stores_none(r, result, set_fault) ==
  LET q    == conns[r]
      call == [NoCall EXCEPT !.op = "with_ai_cache",
                             !.endpoint = q.endpoint, !.symbol = q.symbol,
                             !.fault = q.fault, !.alone = q.alone,
                             !.count = q.count, !.thread = r]
      parsed == IF IsStr(result) /\ IsJsonText(result)
                  THEN json_loads(result) ELSE result
      serialized_result == serialize_value(parsed)
      st == SetCached(cache, q.endpoint, serialized_result, q.symbol,
                      TRUE, set_fault, utc)
  IN
    /\ q.pc = "wait" /\ q.op = "with_ai_cache"
    /\ conns' = [conns EXCEPT ![r] = NoRequest]
    /\ cache' = st.tbl
    /\ last' = [call EXCEPT !.value = result, !.fcalls = 1,
                            !.setcalls = 1, !.setarg = serialized_result,
                                         !.setfault = set_fault,
                            !.flag = 1, !.ok = st.ok,
                            !.ret = serialized_result]
    /\ UNCHANGED <<utc, tz, ncalls>>

\* with_ai_cache from the return of the AI function, which gave result, to
\* its own end: HTTPException 503 on None, else the parse of a str that
\* holds JSON, serialize_value, and set_cached_data on a second connection,
\* whose False (sqlite3 raised, the busy timeout ran out) is not looked at
with_ai_cache_return(r, result, set_fault) ==
  LET q    == conns[r]
      call == [NoCall EXCEPT !.op = "with_ai_cache",
                             !.endpoint = q.endpoint, !.symbol = q.symbol,
                             !.fault = q.fault, !.alone = q.alone,
                             !.count = q.count, !.thread = r]
  IN
    /\ q.pc = "wait" /\ q.op = "with_ai_cache"
    /\ conns' = [conns EXCEPT ![r] = NoRequest]
    /\ IF result = PyNone
         THEN /\ last' = [call EXCEPT !.value = result, !.fcalls = 1,
                                      !.raised = "HTTPException 503"]
              /\ UNCHANGED <<cache, utc, tz, ncalls>>
         ELSE LET parsed == IF IsStr(result) /\ IsJsonText(result)
                              THEN json_loads(result) ELSE result
                  serialized_result == serialize_value(parsed)
                  st == SetCached(cache, q.endpoint, serialized_result,
                                  q.symbol, TRUE, set_fault, utc)
              IN /\ cache' = st.tbl
                 /\ last' = [call EXCEPT !.value = result, !.fcalls = 1,
                                         !.setcalls = 1,
                                         !.setarg = serialized_result,
                                         !.setfault = set_fault,
                                         !.flag = 1, !.ok = st.ok,
                                         !.ret = serialized_result]
                 /\ UNCHANGED <<utc, tz, ncalls>>

\* the payload written to the store directly in this specification
FlowPayloads == {PyNested}

\* the API process starts on a host set to UTC, Wednesday 13:00, with no
\* request in its thread pool
InitFlow ==
  /\ cache = <<>>
  /\ utc = 2 * 86400 + 13 * 3600
  /\ tz = 0
  /\ last = NoCall
  /\ ncalls = 0
  /\ conns = [r \in Callers |-> NoRequest]
  /\ db_lock = 0 /\ arg = NONE /\ pc = "idle" /\ attempt = 0
  /\ lst = <<>> /\ derive = 0 /\ out = NONE

\* the calls of db.py and the requests of flow_api.py, each open to the
\* others between the steps of its lookup and while it waits for its
\* function, while the clock runs and a storage fault may meet any
\* statement
NextFlow ==
  \/ \E d \in TickSteps : Tick(d) /\ UNCHANGED conns /\ DbFrame
  \/ \E r \in Callers, f \in Faults :
       get_cached_data(r, "price", "AAPL", f) /\ DbFrame
  \/ \E r \in Callers, f \in Faults :
       get_cached_data_delete(r, f) /\ DbFrame
  \/ \E r \in Callers : get_cached_data_test(r) /\ DbFrame
  \/ \E v \in FlowPayloads, m \in BOOLEAN, f \in Faults :
       set_cached_data("price", v, "AAPL", m, f) /\ UNCHANGED conns /\ DbFrame
  \/ \E r \in Callers, gf \in Faults :
       with_cache_get(r, "price", "AAPL", gf) /\ DbFrame
  \/ \E r \in Callers, v \in ProviderResults, sf \in Faults :
       with_cache_return(r, v, sf) /\ DbFrame
  \/ \E r \in Callers, gf \in Faults :
       with_ai_cache_get(r, "ai", "AAPL", gf) /\ DbFrame
  \/ \E r \in Callers, v \in AiResults, sf \in Faults :
       with_ai_cache_return(r, v, sf) /\ DbFrame
  \/ \E i \in 1..Len(cache), c \in {"data", "cached_at"} :
       corrupt_row(i, c) /\ UNCHANGED conns /\ DbFrame

SpecFlow == InitFlow /\ [][NextFlow]_vars

\* the same with every call of the store made under either spelling of the
\* symbol
NextSpelling ==
  \/ \E d \in TickSteps : Tick(d) /\ UNCHANGED conns /\ DbFrame
  \/ \E r \in Callers, s \in Spellings, f \in Faults :
       get_cached_data(r, "price", s, f) /\ DbFrame
  \/ \E r \in Callers, f \in Faults :
       get_cached_data_delete(r, f) /\ DbFrame
  \/ \E r \in Callers : get_cached_data_test(r) /\ DbFrame
  \/ \E s \in Spellings, v \in FlowPayloads, m \in BOOLEAN, f \in Faults :
       set_cached_data("price", v, s, m, f) /\ UNCHANGED conns /\ DbFrame
  \/ \E r \in Callers, s \in Spellings, gf \in Faults :
       with_cache_get(r, "price", s, gf) /\ DbFrame
  \/ \E r \in Callers, v \in ProviderResults, sf \in Faults :
       with_cache_return(r, v, sf) /\ DbFrame
  \/ \E r \in Callers, gf \in Faults :
       with_ai_cache_get(r, "ai", "AAPL", gf) /\ DbFrame
  \/ \E r \in Callers, v \in AiResults, sf \in Faults :
       with_ai_cache_return(r, v, sf) /\ DbFrame
  \/ \E i \in 1..Len(cache), c \in {"data", "cached_at"} :
       corrupt_row(i, c) /\ UNCHANGED conns /\ DbFrame

SpecSpelling == InitFlow /\ [][NextSpelling]_vars

----------------------------------------------------------------------------
(* The market-session oracle on its own: the host clock starts anywhere in *)
(* a week, next to the session boundaries included, and the oracle is      *)
(* asked between clock steps.                                              *)

\* local times of day the host may start at: midnight, the second before
\* the open, the open, midday, the close, the second after the close
OracleTimes ==
  {0, 9 * 3600 + 29 * 60 + 59, 9 * 3600 + 30 * 60, 12 * 3600,
   16 * 3600, 16 * 3600 + 1}

\* zone offsets of the host
OracleOffsets == {0, 7200}

\* clock steps between two questions
OracleSteps == {1, 3600}

InitOracle ==
  /\ cache = <<>>
  /\ tz \in OracleOffsets
  \* local day d of the second week, local time t
  /\ \E d \in 0..6, t \in OracleTimes : utc = (7 + d) * 86400 + t - tz
  /\ last = NoCall
  /\ ncalls = 0
  /\ Idle

\* one call of _is_market_open_now
is_market_open_now_call ==
  /\ last' = [NoCall EXCEPT !.op = "is_open", !.ok = is_market_open_now]
  /\ UNCHANGED <<cache, utc, tz, ncalls>>

NextOracle ==
  \/ \E d \in OracleSteps : Tick(d) /\ UNCHANGED others
  \/ is_market_open_now_call /\ UNCHANGED others

SpecOracle == InitOracle /\ [][NextOracle]_vars

----------------------------------------------------------------------------
(* Concurrent callers of db.py.  Every call opens its own connection       *)
(* (get_db_connection) to the one database file.  The file is in SQLite's  *)
(* default rollback-journal mode: a SELECT reads the committed table and   *)
(* keeps no lock once its only row is fetched; an INSERT or DELETE takes   *)
(* the file's write lock, which at most one connection holds, and keeps it *)
(* until the commit at the exit of the `with` block; a statement that      *)
(* finds the lock taken waits, and raises OperationalError ("database is   *)
(* locked") when the busy timeout of sqlite3.connect runs out.             *)

\* the key all callers work on
ConcEndpoint == "price"

ConcSymbol == "AAPL"

\* the arguments of the concurrent set calls: payload and market_aware
SetArgs ==
  { [data |-> PyInt1, market_aware |-> TRUE],
    [data |-> PyNested, market_aware |-> FALSE] }

\* Python True and False, as what set_cached_data returns
PyTrue == [kind |-> "True", items |-> <<>>]

PyFalse == [kind |-> "False", items |-> <<>>]

\* the call has not returned yet
Pending == [kind |-> "<pending>", items |-> <<>>]

\* a connection before its first statement: the call and its arguments, the
\* position of the caller, whether a statement of the connection changed
\* the table, the timestamp it wrote, the connection's view of the table
\* until it commits, the row a get read, and what the call returned
NewConn(op, data, market_aware) ==
  [op |-> op, pc |-> "start", data |-> data, market_aware |-> market_aware,
   wrote |-> FALSE, stamp |-> <<0, 0, 0, 0>>, txn |-> <<>>, row |-> NoRow,
   ret |-> Pending]

\* the calls a caller may make
Calls ==
  {NewConn("get", PyNone, FALSE)} \cup
  {NewConn("set", a.data, a.market_aware) : a \in SetArgs}

\* the row an earlier set_cached_data(ConcEndpoint, "old", ConcSymbol) left
\* on Wednesday at 09:00: expired at 13:00, when the callers start
StaleRow ==
  [endpoint |-> ConcEndpoint, symbol |-> ConcSymbol, data |-> Dumps(PyStrText),
   cached_at |-> <<2, 9, 0, 0>>, market_aware |-> 1]

\* clock steps between two statements
ConcSteps == {1}

InitConc ==
  /\ cache \in {<<>>, <<StaleRow>>}
  /\ utc = 2 * 86400 + 13 * 3600
  /\ tz = 0
  /\ last = NoCall
  /\ ncalls = 0
  /\ conns \in [Callers -> Calls]
  /\ db_lock = 0
  /\ arg = NONE /\ pc = "idle" /\ attempt = 0 /\ lst = <<>> /\ derive = 0
  /\ out = NONE

\* what concurrent callers leave alone
ConcFrame == UNCHANGED <<tz, arg, pc, attempt, lst, derive, out>>

\* set_cached_data, the upsert statement: json.dumps, then the INSERT takes
\* the write lock and changes the connection's view of the table
set_execute(c) ==
  /\ conns[c].op = "set" /\ conns[c].pc = "start"
  /\ db_lock = 0
  /\ db_lock' = c
  /\ conns' = [conns EXCEPT
       ![c].pc = "written",
       ![c].wrote = TRUE,
       ![c].stamp = CurrentTimestamp(utc),
       ![c].txn = Upsert(cache, ConcEndpoint, ConcSymbol,
                         Dumps(conns[c].data),
                         IF conns[c].market_aware THEN 1 ELSE 0, utc)]
  /\ UNCHANGED <<cache, utc, last, ncalls>>
  /\ ConcFrame

\* set_cached_data, `return True` out of the `with` block: conn.commit()
set_commit(c) ==
  /\ conns[c].op = "set" /\ conns[c].pc = "written"
  /\ cache' = conns[c].txn
  /\ db_lock' = 0
  /\ conns' = [conns EXCEPT ![c].pc = "done", ![c].ret = PyTrue]
  /\ UNCHANGED <<utc, last, ncalls>>
  /\ ConcFrame

\* get_cached_data, the SELECT and fetchone: no row, `return None`
get_select(c) ==
  /\ conns[c].op = "get" /\ conns[c].pc = "start"
  /\ LET f == FetchOne(cache, ConcEndpoint, ConcSymbol, "none") IN
       IF f.found
         THEN conns' = [conns EXCEPT ![c].pc = "read", ![c].row = f.row]
         ELSE conns' = [conns EXCEPT ![c].pc = "done", ![c].ret = PyNone]
  /\ UNCHANGED <<cache, db_lock, utc, last, ncalls>>
  /\ ConcFrame

\* get_cached_data, the expiration test on the row read, at the clock of
\* this moment, and the return of the payload of a row that is kept
get_test(c) ==
  /\ conns[c].op = "get" /\ conns[c].pc = "read"
  /\ LET t == TestRow(conns[c].row) IN
       IF t.purge
         THEN conns' = [conns EXCEPT ![c].pc = "expired"]
         ELSE conns' = [conns EXCEPT ![c].pc = "done", ![c].ret = t.ret]
  /\ UNCHANGED <<cache, db_lock, utc, last, ncalls>>
  /\ ConcFrame

\* get_cached_data, the DELETE of the key: it takes the write lock and acts
\* on the table as it is now
get_delete(c) ==
  /\ conns[c].op = "get" /\ conns[c].pc = "expired"
  /\ db_lock = 0
  /\ db_lock' = c
  /\ conns' = [conns EXCEPT
       ![c].pc = "deleted",
       ![c].wrote = TRUE,
       ![c].txn = DeleteKey(cache, ConcEndpoint, ConcSymbol)]
  /\ UNCHANGED <<cache, utc, last, ncalls>>
  /\ ConcFrame

\* get_cached_data, `return None` out of the `with` block: conn.commit()
get_commit(c) ==
  /\ conns[c].op = "get" /\ conns[c].pc = "deleted"
  /\ cache' = conns[c].txn
  /\ db_lock' = 0
  /\ conns' = [conns EXCEPT ![c].pc = "done", ![c].ret = PyNone]
  /\ UNCHANGED <<utc, last, ncalls>>
  /\ ConcFrame

\* the write lock stayed taken for the whole busy timeout: the statement
\* raises OperationalError, the connection rolls back and closes, and the
\* `except` of the call returns False (set) or None (get)
busy_timeout(c) ==
  /\ conns[c].pc \in {"start", "expired"}
  /\ conns[c].op = "get" => conns[c].pc = "expired"
  /\ db_lock \notin {0, c}
  /\ conns' = [conns EXCEPT
       ![c].pc = "done",
       ![c].ret = IF conns[c].op = "set" THEN PyFalse ELSE PyNone]
  /\ UNCHANGED <<cache, db_lock, utc, last, ncalls>>
  /\ ConcFrame

NextConc ==
  \/ \E d \in ConcSteps :
       Tick(d) /\ UNCHANGED others
  \/ \E c \in Callers : set_execute(c)
  \/ \E c \in Callers : set_commit(c)
  \/ \E c \in Callers : get_select(c)
  \/ \E c \in Callers : get_test(c)
  \/ \E c \in Callers : get_delete(c)
  \/ \E c \in Callers : get_commit(c)
  \/ \E c \in Callers : busy_timeout(c)

\* every thread that can take a step is scheduled in the end
SpecConc == InitConc /\ [][NextConc]_vars /\ WF_vars(NextConc)

----------------------------------------------------------------------------
(* predict of predict_next_value.py (and NextValue.py, the same code under *)
(* other names): difference the list while that does not raise the sum of  *)
(* absolute values, repeat the last element, sum back.                     *)

\* longest input list
MaxLen == 3

\* most passes of the `while True` loop the model follows
MaxDerive == 4

\* the integers input lists are made of
PredictValues == {-1, 0, 1, 2}

\* the non-empty lists predict is called on
PredictInputs == UNION {[1..n -> PredictValues] : n \in 1..MaxLen}

abs(x) == IF x < 0 THEN -x ELSE x

RECURSIVE sum_abs(_)
\* sum(map(abs, l))
sum_abs(l) == IF l = <<>> THEN 0 ELSE abs(Head(l)) + sum_abs(Tail(l))

RECURSIVE running_sums_from(_, _)
\* the loop of running_sums: res[-1] + elem for each further elem
running_sums_from(acc, rest) ==
  IF rest = <<>> THEN <<>>
  ELSE <<acc + Head(rest)>> \o running_sums_from(acc + Head(rest), Tail(rest))

running_sums(l) == <<l[1]>> \o running_sums_from(l[1], Tail(l))

anti_running_sums(l) ==
  [i \in 1..Len(l) |-> IF i = 1 THEN l[1] ELSE l[i] - l[i - 1]]

RECURSIVE running_sums_times(_, _)
\* `for i in range(derive): lst = running_sums(lst)`
running_sums_times(n, l) ==
  IF n = 0 THEN l ELSE running_sums_times(n - 1, running_sums(l))

\* what no step of predict touches
PredictFrame == UNCHANGED <<cache, utc, tz, last, ncalls, conns, db_lock,
                            attempt>>

\* the call predict(arg): arg is the caller's list object, the local name
\* lst is bound to that same object, and last keeps the call as it was
\* made, with the elements the list had then
InitPredict ==
  /\ cache = <<>> /\ utc = 0 /\ tz = 0 /\ ncalls = 0
  /\ conns = <<>> /\ db_lock = 0 /\ attempt = 0
  /\ arg \in PredictInputs
  /\ last = [NoCall EXCEPT !.op = "predict", !.value = arg]
  /\ lst = arg
  /\ derive = 0
  /\ pc = "while"
  /\ out = <<>>

\* `nxt = anti_running_sums(lst)`, the head of a pass of `while True`
predict_while ==
  /\ pc = "while"
  /\ pc' = "if"
  /\ UNCHANGED <<arg, lst, derive, out>>
  /\ PredictFrame

\* the test fails: lst = nxt, derive += 1, and the next pass.  lst is bound
\* to the new list nxt, the caller's list is not written.  derive is
\* counted up to MaxDerive: a call that makes more passes holds a list the
\* pass does not change, and never reads derive
predict_continue ==
  /\ pc = "if"
  /\ ~(sum_abs(anti_running_sums(lst)) > sum_abs(lst))
  /\ lst' = anti_running_sums(lst)
  /\ derive' = IF derive < MaxDerive THEN derive + 1 ELSE derive
  /\ pc' = "while"
  /\ UNCHANGED <<arg, out>>
  /\ PredictFrame

\* the test holds: break
predict_break ==
  /\ pc = "if"
  /\ sum_abs(anti_running_sums(lst)) > sum_abs(lst)
  /\ pc' = "append"
  /\ UNCHANGED <<arg, lst, derive, out>>
  /\ PredictFrame

\* lst.append(lst[-1]), the `for` loop and `return lst`.  The append is in
\* place.  When the loop broke in its first pass (derive = 0) lst is still
\* the caller's list: the caller's list gets the element, the `for` loop
\* has no pass, and the list returned is the caller's own object.  After a
\* pass of the loop lst is a list of anti_running_sums, the caller's list
\* is not written, and running_sums returns new lists
predict_return ==
  /\ pc = "append"
  /\ lst' = running_sums_times(derive, Append(lst, lst[Len(lst)]))
  /\ arg' = IF derive = 0 THEN Append(arg, arg[Len(arg)]) ELSE arg
  /\ out' = lst'
  /\ pc' = "done"
  /\ UNCHANGED derive
  /\ PredictFrame

NextPredict ==
  predict_while \/ predict_continue \/ predict_break \/ predict_return

\* the interpreter keeps running the call
SpecPredict == InitPredict /\ [][NextPredict]_vars /\ WF_vars(NextPredict)

----------------------------------------------------------------------------
(* get_technical_analysis of screen_undervalued_recommendations.py: the    *)
(* request to /api/ai/technical-analysis/{ticker}, repeated after a        *)
(* timeout or a connection error.  Texts are sequences of characters.      *)

MAX_RETRIES == 3

\* str.strip(chars) on the left end
RECURSIVE lstrip(_, _)
lstrip(s, chars) ==
  IF s # <<>> /\ Head(s) \in chars THEN lstrip(Tail(s), chars) ELSE s

\* str.strip(chars) on the right end
RECURSIVE rstrip(_, _)
rstrip(s, chars) ==
  IF s # <<>> /\ s[Len(s)] \in chars
    THEN rstrip(SubSeq(s, 1, Len(s) - 1), chars)
    ELSE s

Whitespace == {" ", "\n"}

\* x.strip().strip('"')
strip_quotes(s) ==
  LET t == rstrip(lstrip(s, Whitespace), Whitespace)
  IN  rstrip(lstrip(t, {"\""}), {"\""})

\* response bodies of the server: what r.json() gives (`json`: "str", "dict",
\* "list", "int", "null", or "ValueError" when the body is no JSON), the
\* string a JSON string spells or r.text when it is no JSON (`text`), the
\* string members of a JSON object under the keys looked up (`keys`), and
\* str(data) (`repr`)
Bodies ==
  { [json |-> "str", text |-> <<" ", "\"", "B", "U", "Y", "\"", "\n">>,
     keys |-> <<>>, repr |-> <<>>],
    [json |-> "dict", text |-> <<>>,
     keys |-> << <<"word", <<"B", "U", "Y">> >> >>, repr |-> <<>>],
    [json |-> "dict", text |-> <<>>,
     keys |-> << <<"result", <<" ", "S", "E", "L", "L">> >> >>,
     repr |-> <<>>],
    \* {"word": 1}: the key is there, its value is no string
    [json |-> "dict", text |-> <<>>, keys |-> <<>>,
     repr |-> <<"{", "'", "w", "o", "r", "d", "'", ":", " ", "1", "}">>],
    [json |-> "list", text |-> <<>>, keys |-> <<>>, repr |-> <<"[", "]">>],
    [json |-> "int", text |-> <<>>, keys |-> <<>>, repr |-> <<"1">>],
    [json |-> "null", text |-> <<>>, keys |-> <<>>,
     repr |-> <<"N", "o", "n", "e">>],
    [json |-> "ValueError", text |-> <<"H", "O", "L", "D", " ">>,
     keys |-> <<>>, repr |-> <<>>] }

NoBody == [json |-> "null", text |-> <<>>, keys |-> <<>>, repr |-> <<>>]

\* what one requests.get, followed by raise_for_status, comes to: a
\* response with an OK status, or an exception
Outcomes ==
  {[exc |-> "none", body |-> b] : b \in Bodies} \cup
  {[exc |-> e, body |-> NoBody] :
     e \in {"ReadTimeout", "ConnectTimeout", "ConnectionError", "HTTPError",
            "TooManyRedirects"}}

\* mutant: an error status is retried like a timeout
TimeoutOrConnectionError_or_status ==
  {"ReadTimeout", "ConnectTimeout", "ConnectionError", "HTTPError"}

\* the exceptions `except (requests.Timeout, requests.ConnectionError)`
\* catches
TimeoutOrConnectionError == {"ReadTimeout", "ConnectTimeout", "ConnectionError"}

\* the first string member under "word", "recommendation", "result"
LookupKeys(b) ==
  LET found == {i \in 1..Len(b.keys) :
                  b.keys[i][1] \in {"word", "recommendation", "result"}}
  IN  IF found = {} THEN <<>> ELSE << b.keys[Min(found)][2] >>

\* the body of the inner `try`: the string returned, or the exception that
\* leaves it (`key in data` on a number or on None raises TypeError)
ParseBody(b) ==
  IF b.json = "ValueError"
    THEN [exc |-> "none", text |-> strip_quotes(b.text)]
  ELSE IF b.json = "str"
    THEN [exc |-> "none", text |-> strip_quotes(b.text)]
  ELSE IF b.json \in {"int", "null"}
    THEN [exc |-> "TypeError", text |-> <<>>]
  ELSE IF LookupKeys(b) # <<>>
    THEN [exc |-> "none", text |-> strip_quotes(LookupKeys(b)[1])]
    ELSE [exc |-> "none", text |-> strip_quotes(b.repr)]

\* what get_technical_analysis leaves alone
RetryFrame == UNCHANGED <<cache, utc, tz, conns, db_lock, arg, lst, derive>>

\* the call is entered: `ncalls` counts the requests sent, `last` lists
\* what they came to, in order
InitRetry ==
  /\ cache = <<>> /\ utc = 0 /\ tz = 0 /\ conns = <<>> /\ db_lock = 0
  /\ lst = <<>> /\ derive = 0
  /\ arg = "AAPL"
  /\ attempt = 0
  /\ ncalls = 0
  /\ last = <<>>
  /\ pc = "for"
  /\ out = [kind |-> "none", text |-> <<>>]

\* one pass of `for attempt in range(MAX_RETRIES)` in which the request
\* comes to outcome o
try_request(o) ==
  /\ pc = "for"
  /\ attempt < MAX_RETRIES
  /\ ncalls' = ncalls + 1
  /\ last' = Append(last, o)
  /\ IF o.exc = "none"
       THEN LET p == ParseBody(o.body) IN
         IF p.exc = "none"
           THEN /\ pc' = "returned"
                /\ out' = [kind |-> "str", text |-> p.text]
                /\ UNCHANGED attempt
           ELSE /\ pc' = "raised"
                /\ out' = [kind |-> p.exc, text |-> <<>>]
                /\ UNCHANGED attempt
     ELSE IF o.exc \in TimeoutOrConnectionError
       THEN IF attempt < MAX_RETRIES - 1
              THEN \* print, time.sleep(RETRY_DELAY), next pass
                   /\ attempt' = attempt + 1
                   /\ UNCHANGED <<pc, out>>
              ELSE /\ pc' = "raised"
                   /\ out' = [kind |-> "Exception: Timeout after attempts",
                              text |-> <<>>]
                   /\ UNCHANGED attempt
       ELSE /\ pc' = "raised"
            /\ out' = [kind |-> o.exc, text |-> <<>>]
            /\ UNCHANGED attempt
  /\ RetryFrame

NextRetry == \E o \in Outcomes : try_request(o)

\* requests.get returns or raises within its timeout, time.sleep returns
SpecRetry == InitRetry /\ [][NextRetry]_vars /\ WF_vars(NextRetry)

----------------------------------------------------------------------------
(* _calculate_technical_indicators of flow.py.  The result is the text of  *)
(* the indicator lines; the model keeps, in order, the label of each       *)
(* indicator whose lines are in the text (the numbers and the remarks      *)
(* under a label are left out), so the empty text is the empty sequence.   *)

\* bars of the longest price series
MaxBars == 50

\* lengths of the price series handed in
BarCounts == {0, 29, 30, 49, MaxBars}

\* the closes of a series of n bars, by shape
CloseSeries(shape, n) ==
  [i \in 1..n |->
     IF shape = "flat" THEN 100
     ELSE IF shape = "rising" THEN 100 + i
     ELSE IF shape = "falling" THEN 200 - i
     ELSE 100 + 5 * (i % 10)]

Shapes == {"flat", "rising", "falling", "sideways"}

\* what the function is called with: None, a list (no DataFrame), or a
\* DataFrame with its columns and its Close column, whose cells are
\* numbers or text that is no number
PriceFrames ==
  { [kind |-> "None", columns |-> {}, cells |-> "none", Close |-> <<>>],
    [kind |-> "list", columns |-> {}, cells |-> "numbers",
     Close |-> CloseSeries("flat", 30)] } \cup
  { [kind |-> "DataFrame", columns |-> c, cells |-> "numbers",
     Close |-> CloseSeries(s, n)] :
      c \in {{"Close", "Volume"}, {"Close"}, {"Volume"}},
      s \in Shapes, n \in BarCounts } \cup
  { [kind |-> "DataFrame", columns |-> c, cells |-> "text",
     Close |-> [i \in 1..n |-> "n/a"]] :
      c \in {{"Close", "Volume"}, {"Close"}, {"Volume"}},
      n \in BarCounts }

\* Series.rolling(window).mean().iloc[-1] is NaN: fewer than `window` rows
RollingIsNaN(series, window) == Len(series) < window

RECURSIVE SumSeq(_)
SumSeq(s) == IF s = <<>> THEN 0 ELSE Head(s) + SumSeq(Tail(s))

\* Series.diff(): the first difference is NaN and is left out here; both
\* `where` calls of the RSI turn it into 0
Diff(series) == [i \in 1..(Len(series) - 1) |-> series[i + 1] - series[i]]

\* the last `window` values of delta.where(delta > 0, 0), summed
GainSum(series, window) ==
  LET d == Diff(series)
      t == SubSeq(d, Len(d) - window + 1, Len(d))
  IN  SumSeq([i \in 1..Len(t) |-> IF t[i] > 0 THEN t[i] ELSE 0])

\* the last `window` values of -delta.where(delta < 0, 0), summed
LossSum(series, window) ==
  LET d == Diff(series)
      t == SubSeq(d, Len(d) - window + 1, Len(d))
  IN  SumSeq([i \in 1..Len(t) |-> IF t[i] < 0 THEN -t[i] ELSE 0])

\* df['RSI'].iloc[-1] is NaN: the window is not full, or gain / loss is
\* 0 / 0 (a loss of 0 under a positive gain gives inf and an RSI of 100)
RsiIsNaN(series) ==
  \/ Len(series) < 14
  \/ (GainSum(series, 14) = 0 /\ LossSum(series, 14) = 0)

\* the statements of the `try` block: the exception that leaves it, or the
\* labels of the indicator lines appended
IndicatorLines(price_df) ==
  LET none == [exc |-> "none", lines |-> <<>>]
      close == price_df.Close
  IN
    IF price_df.kind = "None" THEN none
    ELSE IF Len(close) < 30 THEN none
    ELSE IF price_df.kind = "list"
      THEN [exc |-> "AttributeError", lines |-> <<>>]
    ELSE IF ~({"Close", "Volume"} \subseteq price_df.columns) THEN none
    \* df['Close'].rolling(window=20).mean() on cells of text that pandas
    \* cannot turn into floats
    ELSE IF price_df.cells = "text"
      THEN [exc |-> "DataError", lines |-> <<>>]
    ELSE
      [exc |-> "none",
       lines |->
         (IF ~(RollingIsNaN(close, 20) \/ RollingIsNaN(close, 50))
            THEN <<"20-day SMA", "50-day SMA">> ELSE <<>>)
         \o (IF ~RsiIsNaN(close) THEN <<"RSI (14)">> ELSE <<>>)
         \o <<"MACD">>
         \o (IF ~RollingIsNaN(close, 20)
               THEN <<"Bollinger Bands">> ELSE <<>>)
         \o (IF ~RollingIsNaN(close, 20)
               THEN <<"Current Volume">> ELSE <<>>)
         \o <<"5-day High">>]

\* mutant: no `except Exception` around the statements
calculate_technical_indicators_no_except(price_df) ==
  IndicatorLines(price_df)

\* `except Exception: ... return ""`
calculate_technical_indicators(price_df) ==
  LET r == IndicatorLines(price_df) IN
    IF r.exc # "none" THEN [exc |-> "none", lines |-> <<>>] ELSE r

\* what a call of the indicator function leaves alone
IndicatorFrame ==
  UNCHANGED <<cache, utc, tz, last, ncalls, conns, db_lock, arg, attempt,
              lst, derive>>

InitIndicators ==
  /\ cache = <<>> /\ utc = 0 /\ tz = 0 /\ last = NoCall /\ ncalls = 0
  /\ conns = <<>> /\ db_lock = 0 /\ attempt = 0 /\ lst = <<>> /\ derive = 0
  /\ arg \in PriceFrames
  /\ pc = "call"
  /\ out = [exc |-> "none", lines |-> <<>>]

\* one call of _calculate_technical_indicators(arg)
indicators_call ==
  /\ pc = "call"
  /\ out' = calculate_technical_indicators(arg)
  /\ pc' = "done"
  /\ IndicatorFrame

NextIndicators == indicators_call

SpecIndicators == InitIndicators /\ [][NextIndicators]_vars

----------------------------------------------------------------------------
(* The trading-strategy classifier, flow.get_trading_strategy, which the   *)
(* API handler calls (flow_api.py, get_trading_strategy) and               *)
(* tests/test_trading_strategy.py exercises.  Its code is not part of the  *)
(* sources at hand; it is modelled from the specification's algorithm      *)
(* (section 4.4).  Prices are whole cents; a field that may be null is a   *)
(* sequence, <<>> for null and <<x>> for the value x.                      *)

\* the rubric: price vs SMA(20), SMA(20) vs SMA(50), RSI zone, MACD vs
\* signal, position within the Bollinger Bands, each +1, 0 or -1
SignalVectors ==
  { <<1, 1, 1, 1, 1>>, <<1, 1, 0, 1, 0>>, <<1, 1, -1, 1, -1>>,
    <<1, -1, 0, 1, -1>>, <<0, 0, 0, 0, 0>>, <<-1, 1, 0, -1, 1>>,
    <<-1, -1, 1, -1, 1>>, <<-1, -1, 0, -1, 0>>, <<-1, -1, -1, -1, -1>> }

Sign(x) == IF x > 0 THEN 1 ELSE IF x < 0 THEN -1 ELSE 0

\* the signed bullishness score: the sum of the rubric, high volume
\* reinforcing the sign of the move
Score(signals, high_volume) ==
  LET s == SumSeq(signals) IN s + (IF high_volume THEN Sign(s) ELSE 0)

\* from this magnitude on the score is "strongly" positive or negative
StrongScore == 3

\* from this magnitude on the agreement across signals is "large"
HighScore == 5

\* fewest usable bars the classifier works on
MinBars == 20

\* what the classifier is called on: the outcome of the price fetch (null,
\* an exception, or a series of so many usable bars), the rubric's signals
\* and volume, whether the analyst targets corroborate the direction,
\* whether a step of the computation faults, and the current price
StrategyInputs ==
  [fetch : {"None", "raises", "series"}, bars : {0, 19, MinBars, 60},
   signals : SignalVectors, high_volume : BOOLEAN, corroborated : BOOLEAN,
   fault : BOOLEAN, current : {10000}]

WaitTimeframe == "Wait for clearer signals"

\* step 1 and the failure semantics: the fallback result, a WAIT result
\* with its error; the fields of a WAIT result are those of step 4 (no exit
\* targets, null entry and stop, the timeframe that advises waiting) and
\* of step 5 (null ratio)
Fallback(error) ==
  [raised |-> "none", strategy_type |-> "WAIT", confidence |-> "LOW",
   error |-> error, entry_target |-> <<>>, exit_targets |-> <<>>,
   stop_loss |-> <<>>, risk_reward_ratio |-> <<>>,
   timeframe |-> WaitTimeframe]

\* step 3: the strategy of a score
StrategyType(score) ==
  IF score >= StrongScore THEN "LONG"
  ELSE IF score <= -StrongScore THEN "SHORT"
  ELSE "WAIT"

\* mutant: confidence by the score alone
Confidence_by_score_only(score, corroborated) ==
  IF Sign(score) * score >= HighScore /\ corroborated THEN "HIGH"
  ELSE "MEDIUM"

\* step 3: HIGH for large agreement corroborated by the analyst targets,
\* MEDIUM for partial agreement, LOW otherwise, every WAIT included
Confidence(score, corroborated) ==
  IF StrategyType(score) = "WAIT" THEN "LOW"
  ELSE IF Sign(score) * score >= HighScore /\ corroborated THEN "HIGH"
  ELSE "MEDIUM"

\* how far the entry may lie from the current price, the exit targets from
\* one another and the stop from the entry, in cents
EntrySteps == {0, 50}

TargetSteps == {100, 300}

\* mutant: a stop at the entry itself
StopSteps_from_zero == {0, 200}

StopSteps == {200, 400}

\* step 5: average distance to the exit targets over the distance to the
\* stop loss, as the fraction num / den
RiskReward(entry, exits, stop) ==
  [num |-> SumSeq([i \in 1..Len(exits) |-> Sign(exits[i] - entry)
                                            * (exits[i] - entry)]),
   den |-> Len(exits) * Sign(entry - stop) * (entry - stop)]

\* steps 2 to 5 for one choice of the levels: dir is 1 for LONG, -1 for
\* SHORT
Levels(dir, current, e, t1, t2, t3, s) ==
  LET entry == current - dir * e
      exits == << current + dir * t1, current + dir * (t1 + t2),
                  current + dir * (t1 + t2 + t3) >>
      stop  == entry - dir * s
  IN  [entry_target |-> <<entry>>, exit_targets |-> exits,
       stop_loss |-> <<stop>>,
       risk_reward_ratio |-> << RiskReward(entry, exits, stop) >>]

\* the algorithm, an exception of steps 2 to 6 not yet caught
StrategySteps(in, e, t1, t2, t3, s) ==
  LET score == Score(in.signals, in.high_volume)
      type  == StrategyType(score)
      none  == Fallback("")
  IN
    IF in.fetch = "raises"
      THEN [none EXCEPT !.raised = "Exception"]
    ELSE IF in.fetch = "None"
      THEN Fallback("Unable to fetch price data")
    ELSE IF in.bars < MinBars
      THEN Fallback("Insufficient price data")
    ELSE IF in.fault
      THEN [none EXCEPT !.raised = "Exception"]
    ELSE IF type = "WAIT"
      THEN [Fallback("") EXCEPT
              !.confidence = Confidence(score, in.corroborated)]
    ELSE LET l == Levels(IF type = "LONG" THEN 1 ELSE -1, in.current,
                         e, t1, t2, t3, s)
         IN  [raised |-> "none", strategy_type |-> type,
              confidence |-> Confidence(score, in.corroborated),
              error |-> "", entry_target |-> l.entry_target,
              exit_targets |-> l.exit_targets, stop_loss |-> l.stop_loss,
              risk_reward_ratio |-> l.risk_reward_ratio,
              timeframe |-> "1-3 months"]

\* mutant: an exception is left to the caller
classify_unguarded(in, e, t1, t2, t3, s) ==
  StrategySteps(in, e, t1, t2, t3, s)

\* any exception becomes the fallback result
classify(in, e, t1, t2, t3, s) ==
  LET r == StrategySteps(in, e, t1, t2, t3, s) IN
    IF r.raised # "none" THEN Fallback("Error generating strategy")
    ELSE r

\* what a call of the classifier leaves alone
StrategyFrame ==
  UNCHANGED <<cache, utc, tz, last, ncalls, conns, db_lock, arg, attempt,
              lst, derive>>

InitStrategy ==
  /\ cache = <<>> /\ utc = 0 /\ tz = 0 /\ last = NoCall /\ ncalls = 0
  /\ conns = <<>> /\ db_lock = 0 /\ attempt = 0 /\ lst = <<>> /\ derive = 0
  /\ arg \in StrategyInputs
  /\ pc = "call"
  /\ out = Fallback("")

\* one call of the classifier on arg
get_trading_strategy ==
  /\ pc = "call"
  /\ \E e \in EntrySteps, t1, t2, t3 \in TargetSteps, s \in StopSteps :
       out' = classify(arg, e, t1, t2, t3, s)
  /\ pc' = "done"
  /\ StrategyFrame

NextStrategy == get_trading_strategy

SpecStrategy == InitStrategy /\ [][NextStrategy]_vars

----------------------------------------------------------------------------
(* Properties of the cache store.  `last` is read in the state right after *)
(* the step it records.  The test of the row a get fetched reads the clock *)
(* and does not move it, so the age it computed can be recomputed in the   *)
(* state it leaves.                                                        *)

\* now - cached_at, as get_cached_data computed it, at the clock of its
\* test, for the row it had fetched
LastAge == datetime_now - fromisoformat(last.row.cached_at)

\* the last step was the test of the row that a get_cached_data called on
\* its own had fetched: the call has returned (phase "done"), or found the
\* row expired and returns None after its DELETE (phase "purge")
GetFound == last.op = "get" /\ last.found /\ last.phase # "test"

\* the last step settled what a get_cached_data called on its own returns:
\* its SELECT found no row, or it tested the row it had fetched
GetSettled == last.op = "get" /\ last.phase # "test"

\* the get returns None
Absent == ~last.hit /\ last.ret = PyNone

\* the get returned the deserialized payload of the row it fetched
ReturnedPayload ==
  last.phase = "done" /\ last.hit /\ last.ret = Loads(last.row.data)

\* the get follows at once a set_cached_data on its key that returned True:
\* the set returned in the step before the get's SELECT, and the get ran
\* from its SELECT to its test with no step in between
FollowsSet ==
  /\ GetSettled
  /\ last.prior.op = "set" /\ last.prior.ok
  /\ last.prior.endpoint = last.endpoint
  /\ last.prior.symbol = last.symbol

\* the keys that have a row
CachedKeys == {<<cache[i].endpoint, cache[i].symbol>> : i \in 1..Len(cache)}

\* C1: a market-aware row whose age now - cached_at exceeds 24 hours is
\* reported absent by get, with the market open or closed.
C1_ExpiredAfter24h ==
  (GetFound /\ last.row.market_aware = 1 /\ LastAge > 86400) =>
     (Absent /\ last.phase = "purge")

C1_Witness ==
  /\ GetFound /\ last.row.market_aware = 1 /\ LastAge > 86400
  /\ ~is_market_open_now
  /\ Absent

\* C2: for a market-aware row aged at most 24 hours, with the market open
\* when the row is tested, get returns None exactly when the age is above
\* one hour; with the market closed it returns the stored payload.
C2_OneHourWhileOpen ==
  (GetFound /\ last.row.market_aware = 1 /\ LastAge <= 86400) =>
     /\ is_market_open_now => (last.ret = PyNone <=> LastAge > 3600)
     /\ ~is_market_open_now => ReturnedPayload

\* C2 (what the code keeps): the row is found expired exactly when the
\* market is open and the age is above one hour, and the payload of a row
\* that is not expired is returned, the payload null as None
C2_ExpiredAfterOneHourWhileOpen ==
  (GetFound /\ last.row.market_aware = 1 /\ LastAge <= 86400) =>
     /\ last.phase = "purge" <=> (is_market_open_now /\ LastAge > 3600)
     /\ last.phase # "purge" => ReturnedPayload

\* C3: a row that is not market-aware and is between 1 and 24 hours old is
\* returned by get, with the market open as well as closed.
C3_NotMarketAwareKept ==
  (GetFound /\ last.row.market_aware = 0 /\ LastAge >= 3600 /\ LastAge <= 86400)
     => ReturnedPayload

C3_Witness ==
  /\ GetFound /\ last.row.market_aware = 0
  /\ LastAge > 3600 /\ LastAge <= 86400
  /\ is_market_open_now
  /\ ReturnedPayload

\* C4: a row that is not market-aware expires under the 24-hour rule: once
\* its age exceeds 24 hours get reports it absent.
C4_NotMarketAwareExpires ==
  (GetFound /\ last.row.market_aware = 0 /\ LastAge > 86400) => last.ret = PyNone

\* C5: a successful set(e, s, v) followed at once by get(e, s) returns a
\* value equal to v, in every market state and host time zone.
C5_SetThenGet ==
  FollowsSet => (last.phase = "done" /\ last.ret = last.prior.value)

\* C6: cached_at and the now of the expiration check are readings of one
\* clock: right after a write the age get would compute for the written row
\* is the time elapsed since the write, zero.
C6_SameClock ==
  (last.op = "set" /\ last.ok) =>
     \A i \in KeyIndexes(cache, last.endpoint, last.symbol) :
        datetime_now - fromisoformat(cache[i].cached_at) = 0

\* C7: a set on a key that an earlier set wrote leaves one row for the key,
\* holding the later call's payload and flag and a cached_at of the later
\* call; a get that follows returns the later payload.
C7_RowAfterSecondSet ==
  (last.op = "set" /\ last.ok /\ last.found) =>
     /\ Cardinality(KeyIndexes(cache, last.endpoint, last.symbol)) = 1
     /\ \A i \in KeyIndexes(cache, last.endpoint, last.symbol) :
          /\ cache[i].data = Dumps(last.value)
          /\ cache[i].market_aware = last.flag
          /\ cache[i].cached_at = CurrentTimestamp(utc)

C7_Upsert ==
  /\ C7_RowAfterSecondSet
  /\ (FollowsSet /\ last.prior.found) =>
        (last.phase = "done" /\ last.ret = last.prior.value)

\* C8: in every reachable state the table holds at most one row per
\* (endpoint, symbol), so the row count is the number of keys that have a row.
C8_Uniqueness ==
  /\ \A i, j \in 1..Len(cache) :
        (cache[i].endpoint = cache[j].endpoint
           /\ cache[i].symbol = cache[j].symbol) => i = j
  /\ Len(cache) = Cardinality(CachedKeys)

\* a set has updated the row of its key in a table that holds rows of
\* other keys
C8_Witness ==
  /\ last.op = "set" /\ last.ok /\ last.found
  /\ Len(cache) >= 2

\* the step is the SELECT of a get_cached_data called on the key of the
\* get_cached_data whose DELETE was the step before
RepeatedGet ==
  /\ last.op = "purge" /\ last.fault = "none"
  /\ last'.op = "get" /\ conns[last'.thread].pc = "idle"
  /\ last'.endpoint = last.endpoint /\ last'.symbol = last.symbol

\* C9: a get that finds its row expired deletes exactly that row and
\* returns absent; the count drops by one, every other row is as it was,
\* and a repeated get is a plain miss.  A get that hits, or finds no row,
\* changes no row.
C9_LazyPurge ==
  [][ /\ last'.op = "get" => cache' = cache
      /\ (last'.op = "purge" /\ last'.fault = "none") =>
           /\ last'.ret = PyNone
           /\ cache' = SelectSeq(cache, LAMBDA r : r # last'.row)
           /\ Len(cache') = Len(cache) - 1
      /\ RepeatedGet =>
           (~last'.found /\ last'.phase = "done" /\ last'.ret = PyNone) ]_vars

\* C9 (what the code keeps): the SELECT and the test of a get change no
\* row; the DELETE of a get that found its row expired removes what the
\* key holds when it runs and no row of another key, and the get returns
\* None; a repeated get is a plain miss.
C9_PurgeByKey ==
  [][ /\ last'.op = "get" => cache' = cache
      /\ (last'.op = "purge" /\ last'.fault = "none") =>
           /\ last'.ret = PyNone
           /\ cache' = DeleteKey(cache, last'.endpoint, last'.symbol)
           /\ Len(cache') >= Len(cache) - 1
      /\ RepeatedGet =>
           (~last'.found /\ last'.phase = "done" /\ last'.ret = PyNone) ]_vars

\* C10: clear(endpoint?, symbol?) deletes exactly the rows matching every
\* filter supplied (None = not supplied), returns how many it deleted and
\* leaves the other rows as they were, for every string given as a filter,
\* the empty string included.
C10_ClearExact ==
  [][ last'.op = "clear" =>
        LET Matches(r) ==
              /\ (last'.endpoint # NONE => r.endpoint = last'.endpoint)
              /\ (last'.symbol # NONE => r.symbol = last'.symbol)
            Rest(r) == ~Matches(r)
        IN  /\ cache' = SelectSeq(cache, Rest)
            /\ last'.count = Len(SelectSeq(cache, Matches)) ]_vars

\* C10, for filters that are None or non-empty strings
C10_ClearNonEmptyFilters ==
  [][ (last'.op = "clear" /\ last'.endpoint # "" /\ last'.symbol # "") =>
        LET Matches(r) ==
              /\ (last'.endpoint # NONE => r.endpoint = last'.endpoint)
              /\ (last'.symbol # NONE => r.symbol = last'.symbol)
            Rest(r) == ~Matches(r)
        IN  /\ cache' = SelectSeq(cache, Rest)
            /\ last'.count = Len(SelectSeq(cache, Matches)) ]_vars

\* C11 (the part about clear_symbol_cache alone): the call deletes every row
\* whose symbol equals its argument, whatever the endpoint, leaves every other
\* row in place and returns the number of rows it deleted.
C11_ClearSymbolExact ==
  [][ last'.op = "clear_symbol" =>
        LET s == last'.symbol
            Has(r) == r.symbol = s
            Other(r) == r.symbol # s
        IN /\ cache' = SelectSeq(cache, Other)
           /\ last'.count = Len(SelectSeq(cache, Has)) ]_vars

\* C11: clear_symbol_cache(s) deletes exactly the rows whose symbol is s and
\* returns their number, and that is the effect and the count clear_cache
\* has when called with symbol = s and no endpoint.
C11_ClearSymbolAsClear ==
  [][ last'.op = "clear_symbol" =>
        LET s == last'.symbol
            Has(r) == r.symbol = s
            Other(r) == r.symbol # s
            byClear == clear_cache_rows(cache, NONE, s)
        IN /\ cache' = SelectSeq(cache, Other)
           /\ last'.count = Len(SelectSeq(cache, Has))
           /\ cache' = byClear
           /\ last'.count = Len(cache) - Len(byClear) ]_vars

\* the age get_cached_data computes for row r: now - cached_at
RowAge(r) == datetime_now - fromisoformat(r.cached_at)

\* the expiration rule as the specification words it for a stored row: older
\* than 24 hours, or market-aware and older than 1 hour while the market is
\* open
RuleExpired(r) ==
  \/ RowAge(r) > 86400
  \/ r.market_aware = 1 /\ is_market_open_now /\ RowAge(r) > 3600

\* C12: clear_expired_cache deletes exactly the rows the expiration rule
\* marks expired at the time of the call, keeps every other row and returns
\* the number of rows it deleted.
C12_ClearExpiredAsRule ==
  [][ last'.op = "clear_expired" =>
        LET Keep(r) == ~RuleExpired(r)
        IN /\ cache' = SelectSeq(cache, Keep)
           /\ last'.count = Len(SelectSeq(cache, RuleExpired)) ]_vars

\* C12 (second wording): clear_expired_cache deletes exactly the rows the
\* lazy check of get_cached_data would treat as expired.
C12_ClearExpiredAsLazy ==
  [][ last'.op = "clear_expired" =>
        LET Keep(r) == ~RowExpired(r)
        IN /\ cache' = SelectSeq(cache, Keep)
           /\ last'.count = Len(SelectSeq(cache, RowExpired)) ]_vars

\* the rows of the table that get_cached_data would return now
ValidRows == SelectSeq(cache, LAMBDA r : ~RowExpired(r))

\* C13 (arithmetic part): valid + expired = total in every report; when no
\* other request committed between the statements of the call, the total
\* is the number of rows and 0 <= expired <= total.
C13_StatsArithmetic ==
  last.op = "stats" =>
    /\ last.expired = last.total - last.valid
    /\ last.valid + last.expired = last.total
    /\ last.ok => /\ last.total = Len(cache)
                  /\ 0 <= last.expired /\ last.expired <= last.total

\* C13 (every report): total is the number of rows and 0 <= expired <=
\* total, also when another request commits between the statements
C13_StatsArithmeticAlways ==
  last.op = "stats" =>
    /\ last.total = Len(cache)
    /\ 0 <= last.expired /\ last.expired <= last.total

\* C13: the statistics of a call that no other request overlapped report
\* total = number of rows, valid = number of rows that pass the expiration
\* rule (the rows get would return), expired = total - valid, so valid +
\* expired = total and 0 <= expired <= total.
C13_StatsAsRule ==
  (last.op = "stats" /\ last.ok) =>
    /\ last.total = Len(cache)
    /\ last.valid = Len(ValidRows)
    /\ last.expired = last.total - last.valid
    /\ last.valid + last.expired = last.total
    /\ 0 <= last.expired /\ last.expired <= last.total

\* the endpoints that have a row
CachedEndpoints == {cache[i].endpoint : i \in 1..Len(cache)}

\* position of an endpoint name in the collation order
EndpointRank(e) == CHOOSE i \in 1..Len(EndpointsSorted) : EndpointsSorted[i] = e

\* C14 as stated: by_endpoint has one entry per endpoint, each count is the
\* number of currently valid rows of that endpoint, and the entries are in
\* descending order of count.
C14_ByEndpointValidDescending ==
  last.op = "stats" =>
    LET b == last.by_endpoint
        ValidOf(e) == Len(SelectSeq(ValidRows, LAMBDA r : r.endpoint = e))
    IN /\ \A i, j \in 1..Len(b) : i # j => b[i].endpoint # b[j].endpoint
       /\ \A i \in 1..Len(b) : b[i].endpoint \in CachedEndpoints
       /\ \A i \in 1..Len(b) : b[i].count = ValidOf(b[i].endpoint)
       /\ \A i, j \in 1..Len(b) : i < j => b[i].count >= b[j].count

\* C14 amended: by_endpoint has exactly one entry per endpoint that has a
\* row, each count is the number of all rows of that endpoint, expired ones
\* included, and the entries are in ascending order of the endpoint name,
\* whatever their counts.
C14_ByEndpointAllRows ==
  last.op = "stats" =>
    LET b == last.by_endpoint
        RowsOf(e) == Len(SelectSeq(cache, LAMBDA r : r.endpoint = e))
    IN /\ \A i, j \in 1..Len(b) : i # j => b[i].endpoint # b[j].endpoint
       /\ {b[i].endpoint : i \in 1..Len(b)} = CachedEndpoints
       /\ \A i \in 1..Len(b) : b[i].count = RowsOf(b[i].endpoint)
       /\ \A i, j \in 1..Len(b) :
            i < j => EndpointRank(b[i].endpoint) < EndpointRank(b[j].endpoint)

\* statistics over two endpoints, the smaller group listed first, with a row
\* counted that get_cached_data would no longer return
C14_Witness ==
  /\ last.op = "stats"
  /\ Len(last.by_endpoint) = 2
  /\ last.by_endpoint[1].count < last.by_endpoint[2].count
  /\ Len(ValidRows) < Len(cache)

\* the host's local wall clock split into weekday, hour, minute and second
LocalWeekday == ((utc + tz) \div 86400) % 7
LocalHour == ((utc + tz) % 86400) \div 3600
LocalMinute == ((utc + tz) % 3600) \div 60
LocalSecond == (utc + tz) % 60

\* C15: the oracle answers open if and only if the weekday is Monday to
\* Friday and the time of day lies within 09:30:00 to 16:00:00 inclusive; on
\* Saturday and Sunday it answers closed at every time, and on a weekday
\* within those hours it always answers open (no holidays).
C15_Oracle ==
  last.op = "is_open" =>
    LET weekdayMonFri == LocalWeekday \in {0, 1, 2, 3, 4}
        fromOpen == LocalHour > 9 \/ (LocalHour = 9 /\ LocalMinute >= 30)
        toClose  == \/ LocalHour < 16
                    \/ LocalHour = 16 /\ LocalMinute = 0 /\ LocalSecond = 0
    IN /\ last.ok <=> (weekdayMonFri /\ fromOpen /\ toClose)
       /\ LocalWeekday \in {5, 6} => ~last.ok

\* the oracle asked on a Friday at 16:00:00 sharp answers open
C15_Witness ==
  /\ last.op = "is_open" /\ last.ok
  /\ LocalWeekday = 4
  /\ LocalHour = 16 /\ LocalMinute = 0 /\ LocalSecond = 0

\* C16: set_cached_data called with a payload json.dumps rejects returns
\* False, raises nothing, and leaves the table as it was: a row stored
\* earlier under the key keeps its payload, cached_at and market_aware, and
\* no row is added.
C16_SetRejectedPayload ==
  [][ (last'.op = "set" /\ last'.value = PySetObj) =>
        /\ ~last'.ok
        /\ last'.raised = "none"
        /\ cache' = cache ]_vars

\* a rejected set on a key that holds a row: the row is still there
C16_Witness ==
  /\ last.op = "set" /\ last.value = PySetObj /\ ~last.ok
  /\ \E i \in KeyIndexes(cache, last.endpoint, last.symbol) :
       cache[i].data = Dumps(PyNested)

\* the row stored under the key is malformed: its payload is no JSON or its
\* timestamp does not parse
RowMalformed(r) == r.data = Garbage \/ r.cached_at = MalformedTimestamp

\* the row is malformed where get_cached_data reads it: the payload, or the
\* timestamp of a market-aware row
RowMalformedWhereRead(r) ==
  \/ r.data = Garbage
  \/ r.cached_at = MalformedTimestamp /\ r.market_aware # 0

\* what with_cache returns on a miss when the provider returned v
FreshResult(v) == serialize_value(IF IsStr(v) THEN json_loads(v) ELSE v)

\* C17: when the storage layer faults (sqlite3 raises, or the row fetched
\* has a malformed payload or timestamp) get_cached_data returns None and
\* set_cached_data returns False, neither raises, and with_cache goes on
\* from its lookup to call the provider and returns the provider's fresh
\* result.
C17_FaultsAreMisses ==
  [][ /\ (last'.op = "get" /\ last'.phase # "test" /\
          (last'.fault # "none"
             \/ (last'.found /\ RowMalformed(last'.row)))) =>
        (last'.ret = PyNone /\ last'.raised = "none")
      /\ (last'.op = "purge" /\ last'.fault # "none") =>
        (last'.ret = PyNone /\ last'.raised = "none" /\ cache' = cache)
      /\ (last'.op = "set" /\ last'.setfault # "none") =>
        (~last'.ok /\ last'.raised = "none" /\ cache' = cache)
      /\ (last'.op = "with_cache" /\ last'.fcalls = 0 /\
          last'.phase # "test" /\
          (last'.fault # "none"
             \/ (last'.found /\ RowMalformed(last'.row)))) =>
        (~last'.hit /\ last'.phase \in {"wait", "purge"}
           /\ last'.raised = "none")
      /\ (last'.op = "with_cache" /\ last'.fcalls = 1 /\
          (last'.fault # "none" \/ last'.setfault # "none")) =>
        (/\ last'.ret = FreshResult(last'.value)
         /\ last'.raised = "none") ]_vars

\* C17 (the faults the code meets): the same, for sqlite3 raising, a
\* malformed payload, and a malformed timestamp on a market-aware row.
C17_FaultsWhereRead ==
  [][ /\ (last'.op = "get" /\ last'.phase # "test" /\
          (last'.fault # "none"
             \/ (last'.found /\ RowMalformedWhereRead(last'.row)))) =>
        (last'.ret = PyNone /\ last'.raised = "none")
      /\ (last'.op = "purge" /\ last'.fault # "none") =>
        (last'.ret = PyNone /\ last'.raised = "none" /\ cache' = cache)
      /\ (last'.op = "set" /\ last'.setfault # "none") =>
        (~last'.ok /\ last'.raised = "none" /\ cache' = cache)
      /\ (last'.op = "with_cache" /\ last'.fcalls = 0 /\
          last'.phase # "test" /\
          (last'.fault # "none"
             \/ (last'.found /\ RowMalformedWhereRead(last'.row)))) =>
        (~last'.hit /\ last'.phase \in {"wait", "purge"}
           /\ last'.raised = "none")
      /\ (last'.op = "with_cache" /\ last'.fcalls = 1 /\
          (last'.fault # "none" \/ last'.setfault # "none")) =>
        (/\ last'.ret = FreshResult(last'.value)
         /\ last'.raised = "none") ]_vars

\* str.upper() on the symbols of this model
Upper(s) == IF s = "aapl" THEN "AAPL" ELSE s

\* the get follows at once a set_cached_data that returned True on its
\* endpoint, and meets no storage fault
GetAfterSet ==
  /\ GetSettled /\ last.fault = "none"
  /\ last.prior.op = "set" /\ last.prior.ok
  /\ last.prior.endpoint = last.endpoint

\* C18: the symbol of a cache key is normalized to upper case: every row
\* carries the upper-case symbol, no two rows of an endpoint differ only by
\* the case of their symbols, and a payload stored under one spelling is
\* what a get under another spelling of the same symbol returns.
C18_CaseNormalized ==
  /\ \A i \in 1..Len(cache) : cache[i].symbol = Upper(cache[i].symbol)
  /\ \A i, j \in 1..Len(cache) :
       (/\ cache[i].endpoint = cache[j].endpoint
        /\ Upper(cache[i].symbol) = Upper(cache[j].symbol)) => i = j
  /\ (GetAfterSet /\ Upper(last.symbol) = Upper(last.prior.symbol)) =>
       last.ret = last.prior.value

\* C18 (what the code keeps): rows are keyed by the symbol exactly as it was
\* passed, so a set followed at once by a get with the identical spelling
\* returns the payload on this host.
C18_ExactSpelling ==
  (GetAfterSet /\ last.symbol = last.prior.symbol) =>
     last.ret = last.prior.value

\* after the step the thread of the request that last' records is at the
\* point of the request that last' names
RequestGoesOn ==
  LET q == conns'[last'.thread] IN
    /\ q.pc = last'.phase /\ q.op = last'.op
    /\ q.endpoint = last'.endpoint /\ q.symbol = last'.symbol

\* the step is the return of the request that last' records: it waited for
\* its function, and its thread is free again
ReturnsFromWait ==
  LET r == last'.thread IN
    /\ conns[r].pc = "wait" /\ conns[r].op = last'.op
    /\ conns[r].endpoint = last'.endpoint
    /\ conns[r].symbol = last'.symbol
    /\ conns' = [conns EXCEPT ![r] = NoRequest]

\* the step is the DELETE of the lookup of a request of kind op
PurgeOf(op) == last'.op = "purge" /\ conns[last'.thread].op = op

\* C19: with_cache is read-through.  When its get_cached_data returns a
\* payload, that payload is returned and neither the provider nor
\* set_cached_data is called; when it returns None (no row, sqlite3
\* raising, an expired row, which it deletes first, a payload that does
\* not parse or is null) the request goes on to the provider, which it
\* calls exactly once, and when the provider returns, its serialized
\* result is handed to set_cached_data under (endpoint, symbol), where it
\* is the key's one row, stamped with the time of that moment, unless the
\* storage layer faults, and that same result is returned; whatever other
\* requests do in the meantime.
C19_ReadThrough ==
  [][ /\ (last'.op = "with_cache" /\ last'.fcalls = 0) =>
           /\ last'.setcalls = 0
           /\ cache' = cache
           /\ IF last'.phase = "test"
                THEN last'.found /\ RequestGoesOn
                ELSE IF last'.ret # PyNone
                  THEN /\ last'.hit /\ last'.phase = "done"
                       /\ last'.ret = Loads(last'.row.data)
                       /\ conns'[last'.thread] = NoRequest
                  ELSE /\ ~last'.hit
                       /\ last'.phase \in {"wait", "purge"}
                       /\ RequestGoesOn
      /\ PurgeOf("with_cache") =>
           /\ last'.setcalls = 0
           /\ conns'[last'.thread].pc = "wait"
      /\ (last'.op = "with_cache" /\ last'.fcalls # 0) =>
           LET e == last'.endpoint
               s == last'.symbol
               Other(r) == ~(r.endpoint = e /\ r.symbol = s)
           IN /\ ReturnsFromWait
              /\ last'.fcalls = 1 /\ last'.setcalls = 1
              /\ last'.setarg = FreshResult(last'.value)
              /\ last'.ret = last'.setarg
              /\ SelectSeq(cache', Other) = SelectSeq(cache, Other)
              /\ last'.setfault = "none" =>
                   /\ last'.ok
                   /\ Cardinality(KeyIndexes(cache', e, s)) = 1
                   /\ \A i \in KeyIndexes(cache', e, s) :
                        /\ cache'[i].data = Dumps(last'.ret)
                        /\ cache'[i].cached_at = CurrentTimestamp(utc)
    ]_vars

\* a miss: the provider returned the tuple (1,) after an hour or more, the
\* list [1] was returned and is the payload of the key's row, stamped with
\* the time of the return
C19_Witness ==
  /\ last.op = "with_cache" /\ last.fcalls = 1 /\ last.value = PyTuple1
  /\ last.ret = [kind |-> "list", items |-> <<PyInt1>>]
  /\ utc > 2 * 86400 + 13 * 3600
  /\ \E i \in KeyIndexes(cache, last.endpoint, last.symbol) :
       /\ cache[i].data = Dumps(last.ret)
       /\ cache[i].cached_at = CurrentTimestamp(utc)

\* a hit: the lookup fetched the row, tested it and returned its payload
C19_WitnessHit ==
  /\ last.op = "with_cache" /\ last.fcalls = 0 /\ last.hit
  /\ last.phase = "done" /\ last.ret = Loads(last.row.data)

\* two requests for one key that both missed: the provider was called for
\* each, each returned its own result, and the row is the one of the
\* request that returned later
BothMissed ==
  /\ last.op = "with_cache" /\ last.fcalls = 1 /\ ~last.alone
  /\ last.ok /\ last.value = PyTuple1
  /\ \A r \in Callers : conns[r].pc = "idle"
  /\ \E i \in KeyIndexes(cache, last.endpoint, last.symbol) :
       cache[i].data = Dumps(last.ret)

\* the step settles the lookup of a with_ai_cache request that follows at
\* once a with_ai_cache request on the same key which ended with 503
FollowsNone ==
  /\ last'.op = "with_ai_cache" /\ last'.fcalls = 0
  /\ last'.phase # "test"
  /\ last'.prior.op = "with_ai_cache"
  /\ last'.prior.raised = "HTTPException 503"
  /\ last'.prior.endpoint = last'.endpoint
  /\ last'.prior.symbol = last'.symbol

\* the step is the end of a with_ai_cache request whose AI function
\* returned None
AiReturnedNone ==
  /\ last'.op = "with_ai_cache" /\ last'.fcalls = 1
  /\ last'.value = PyNone

----------------------------------------------------------------------------
(* Properties of concurrent callers *)

\* every caller has returned
AllDone == \A c \in Callers : conns[c].pc = "done"

\* the rows of the callers' key
KeyRows == {cache[i] : i \in KeyIndexes(cache, ConcEndpoint, ConcSymbol)}

\* row r is, in all three columns, what the set call of caller c wrote
WrittenBy(r, c) ==
  /\ conns[c].op = "set"
  /\ conns[c].pc \in {"written", "done"}
  /\ r.data = Dumps(conns[c].data)
  /\ r.market_aware = (IF conns[c].market_aware THEN 1 ELSE 0)
  /\ r.cached_at = conns[c].stamp

\* a get of the run deleted the key
Purged == \E c \in Callers : conns[c].op = "get" /\ conns[c].wrote

\* at any moment the key has at most one row and that row is the one the
\* table started with or wholly the work of one set call; once all callers
\* are back, and no get purged the key, the row is there and is the work of
\* a set call that returned True; a get returns None, the payload the table
\* started with, or the whole payload of one set call
ConcAtomic ==
  /\ Cardinality(KeyIndexes(cache, ConcEndpoint, ConcSymbol)) <= 1
  /\ \A r \in KeyRows : r = StaleRow \/ \E c \in Callers : WrittenBy(r, c)
  /\ (AllDone /\ ~Purged /\ \E c \in Callers : conns[c].op = "set")
       => /\ Cardinality(KeyIndexes(cache, ConcEndpoint, ConcSymbol)) = 1
          /\ \E c \in Callers :
               /\ conns[c].ret = PyTrue
               /\ \A r \in KeyRows : WrittenBy(r, c)
  /\ \A c \in Callers :
       (conns[c].op = "get" /\ conns[c].pc = "done")
         => \/ conns[c].ret = PyNone
            \/ conns[c].ret = Loads(StaleRow.data)
            \/ \E w \in Callers :
                 /\ conns[w].op = "set" /\ conns[w].ret = PyTrue
                 /\ conns[c].ret = conns[w].data

\* C21: under every interleaving of concurrent set and get calls on one key
\* every call returns, the key never has a mixed or duplicated row, the row
\* left by concurrent sets is wholly the work of one of them, and a get
\* returns None or a payload some set wrote in full
C21_ConcurrentSetsAtomic == []ConcAtomic /\ <>[]AllDone

\* all callers were set calls with different arguments, written at
\* different seconds, all returned True, and the key has one row
C21_Witness ==
  /\ AllDone
  /\ \A c \in Callers : conns[c].op = "set" /\ conns[c].ret = PyTrue
  /\ \E c, d \in Callers :
       /\ conns[c].data # conns[d].data
       /\ conns[c].stamp # conns[d].stamp
  /\ Cardinality(KeyIndexes(cache, ConcEndpoint, ConcSymbol)) = 1

\* C26: the purge of a get only ever removes an expired row: whenever the
\* key loses its row, the row it had was expired, also when a concurrent set
\* committed it between the get's SELECT and the get's DELETE
C26_PurgeOnlyExpired ==
  [][(KeyRows # {} /\ KeyRows' = {}) => \A r \in KeyRows : RowExpired(r)]_vars

----------------------------------------------------------------------------
(* Properties of the read-through path, continued *)

\* the last step settled the lookup of a with_cache call that follows at
\* once a with_cache call on the same key which missed, called f once and
\* stored its result; the lookup meets no storage fault
SecondCallOnKey ==
  /\ last.op = "with_cache" /\ last.fcalls = 0 /\ last.phase # "test"
  /\ last.fault = "none"
  /\ last.prior.op = "with_cache" /\ last.prior.fcalls = 1
  /\ last.prior.setcalls = 1 /\ last.prior.ok
  /\ last.prior.raised = "none"
  /\ last.prior.endpoint = last.endpoint
  /\ last.prior.symbol = last.symbol

\* C27: a with_cache call that follows at once a with_cache call on the
\* same key which missed and whose set succeeded is served from the cache
\* and does not call f, whatever f returned, None included
C27_SecondCallServed ==
  SecondCallOnKey => (last.hit /\ last.phase = "done")

\* the same for every result of f but None
C27_SecondCallServedUnlessNone ==
  (SecondCallOnKey /\ last.prior.value # PyNone)
     => (last.hit /\ last.phase = "done" /\ last.ret = last.prior.ret)

----------------------------------------------------------------------------
(* Properties of predict *)

\* the list the loop holds is one differencing maps to itself: the loop
\* can neither break nor change it
FixedPoint == anti_running_sums(lst) = lst

\* the list passed to the call, with the elements it had when predict was
\* called
Passed == last.value

\* the returned list is the list passed and one more element
ResultExtendsInput ==
  /\ Len(out) = Len(Passed) + 1
  /\ SubSeq(out, 1, Len(Passed)) = Passed

\* what the call does to the caller's list: when the loop broke in its
\* first pass the caller's list is the returned list, one element longer
\* than it was passed; in every other case it is as it was passed
CallerListAfter ==
  /\ pc # "done" => arg = Passed
  /\ (pc = "done" /\ derive = 0) => (arg = out /\ Len(arg) = Len(Passed) + 1)
  /\ (pc = "done" /\ derive > 0) => arg = Passed

\* a call that returned the caller's own list, grown by one element
CallerListGrown == pc = "done" /\ derive = 0 /\ arg = out /\ arg # Passed

\* C30: predict returns for every non-empty list of integers, and what it
\* returns is the input followed by one more element
C30_PredictTerminates ==
  /\ <>(pc = "done")
  /\ [](pc = "done" => ResultExtendsInput)

\* whenever predict returns, the result is the input and one more element
C30_ResultWhenReturned == pc = "done" => ResultExtendsInput

\* the loop is still running after MaxDerive passes only on a list it
\* cannot change
C30_StuckOnlyOnFixedPoint ==
  (pc \in {"while", "if"} /\ derive = MaxDerive) => FixedPoint

----------------------------------------------------------------------------
(* Properties of get_technical_analysis *)

\* a timeout or a connection error of requests
RetriedErrors == {"ReadTimeout", "ConnectTimeout", "ConnectionError"}

\* the call is over
RetryOver == pc \in {"returned", "raised"}

\* what the latest request came to
LatestExc == last[Len(last)].exc

\* never more than MAX_RETRIES requests, and as many as were counted; every
\* request but the latest ended in a timeout or a connection error; a
\* response with an OK status ends the call, which returns a string if it
\* returns; the MAX_RETRIES-th timeout or connection error raises, and no
\* earlier one does; any other exception raises in the pass it occurs in
RetryRules ==
  /\ ncalls <= MAX_RETRIES /\ Len(last) = ncalls
  /\ \A i \in 1..(Len(last) - 1) : last[i].exc \in RetriedErrors
  /\ (pc = "for" /\ last # <<>>) => LatestExc \in RetriedErrors
  /\ last = <<>> => pc = "for"
  /\ last # <<>> =>
       /\ LatestExc = "none" => RetryOver
       /\ pc = "returned" => (LatestExc = "none" /\ out.kind = "str")
       /\ (LatestExc \in RetriedErrors /\ ncalls = MAX_RETRIES)
            => pc = "raised"
       /\ (LatestExc \in RetriedErrors /\ pc = "raised")
            => ncalls = MAX_RETRIES
       /\ LatestExc \in {"HTTPError", "TooManyRedirects"}
            => (pc = "raised" /\ out.kind = LatestExc)

\* C29: get_technical_analysis sends at most MAX_RETRIES requests, retries
\* only after a timeout or connection error, returns on the first
\* response, raises after the third such failure and at once on any other
\* error, and always ends with a string or an exception
C29_BoundedRetry == []RetryRules /\ <>[]RetryOver

\* the third request timed out too and the call raised
C29_Witness ==
  /\ pc = "raised"
  /\ ncalls = MAX_RETRIES
  /\ LatestExc \in RetriedErrors

----------------------------------------------------------------------------
(* Properties of the indicator function *)

\* the series is a DataFrame with Close and Volume columns, and its closes
\* are numbers
WellFormed ==
  /\ arg.kind = "DataFrame"
  /\ {"Close", "Volume"} \subseteq arg.columns
  /\ arg.cells = "numbers"

\* the lines of the result labelled l
Has(l) == \E i \in 1..Len(out.lines) : out.lines[i] = l

\* C25: the indicator function never raises; None, a series of fewer than
\* 30 bars, a series without its Close or Volume column and a series whose
\* computation faults all give the empty result, with no SMA, RSI, MACD or
\* Bollinger line
C25_IndicatorsNeverRaise ==
  pc = "done" =>
    /\ out.exc = "none"
    /\ (~WellFormed \/ Len(arg.Close) < 30) => out.lines = <<>>

\* the call was made on a series of 30 or more bars whose Close column
\* holds text, on which the first rolling mean raises, and returned the
\* empty result
C25_Witness ==
  /\ pc = "done"
  /\ arg.kind = "DataFrame"
  /\ {"Close", "Volume"} \subseteq arg.columns
  /\ Len(arg.Close) >= 30 /\ arg.cells = "text"
  /\ out.lines = <<>> /\ out.exc = "none"

\* C28: on a well-formed series of n >= 30 bars an indicator is in the
\* result exactly if n is at least its window: SMA(20), RSI(14), MACD and
\* Bollinger always, SMA(50) exactly from 50 bars on
C28_IncludedIffWindowFits ==
  (pc = "done" /\ WellFormed /\ Len(arg.Close) >= 30) =>
    /\ Has("20-day SMA")
    /\ Has("RSI (14)")
    /\ Has("MACD")
    /\ Has("Bollinger Bands")
    /\ Has("50-day SMA") <=> Len(arg.Close) >= 50

\* what the code does instead: both SMA lines come together, from 50 bars
\* on, and the RSI line is missing when the closes of its window do not move
C28_AsCoded ==
  (pc = "done" /\ WellFormed /\ Len(arg.Close) >= 30) =>
    /\ Has("20-day SMA") <=> Len(arg.Close) >= 50
    /\ Has("50-day SMA") <=> Len(arg.Close) >= 50
    /\ Has("RSI (14)") <=> ~RsiIsNaN(arg.Close)
    /\ Has("MACD")
    /\ Has("Bollinger Bands")

----------------------------------------------------------------------------
(* Properties of the trading-strategy classifier *)

\* the price series is null, short, or something raised on the way
NoUsableSeries ==
  \/ arg.fetch \in {"None", "raises"}
  \/ arg.bars < MinBars
  \/ arg.fault

\* C22: the classifier never raises; on a null series, on fewer than 20
\* usable bars and on any exception it returns WAIT with confidence LOW and
\* a non-empty error
C22_FallbackNeverRaises ==
  pc = "done" =>
    /\ out.raised = "none"
    /\ NoUsableSeries =>
         /\ out.strategy_type = "WAIT"
         /\ out.confidence = "LOW"
         /\ out.error # ""

\* the classifier was called on a full series, a step of its computation
\* raised, and it returned the fallback
C22_Witness ==
  /\ pc = "done"
  /\ arg.fetch = "series" /\ arg.bars >= MinBars /\ arg.fault
  /\ out.strategy_type = "WAIT" /\ out.error # ""

\* the exit targets move away from the current price in direction dir,
\* each strictly beyond the one before
TargetsBeyond(dir) ==
  /\ Len(out.exit_targets) = 3
  /\ \A i \in 1..3 : dir * (out.exit_targets[i] - arg.current) > 0
  /\ \A i \in 1..2 :
       dir * (out.exit_targets[i + 1] - out.exit_targets[i]) > 0

\* the risk-reward ratio is there and strictly positive
RiskRewardPositive ==
  /\ Len(out.risk_reward_ratio) = 1
  /\ out.risk_reward_ratio[1].num * out.risk_reward_ratio[1].den > 0

\* C23: a LONG result has three exit targets, strictly increasing and all
\* above the current price, its entry at or below the current price, its
\* stop strictly below the entry and a positive risk-reward ratio; a SHORT
\* result is the mirror image
C23_LongShortLevels ==
  /\ (pc = "done" /\ out.strategy_type = "LONG") =>
       /\ TargetsBeyond(1)
       /\ out.entry_target[1] <= arg.current
       /\ out.stop_loss[1] < out.entry_target[1]
       /\ RiskRewardPositive
  /\ (pc = "done" /\ out.strategy_type = "SHORT") =>
       /\ TargetsBeyond(-1)
       /\ out.entry_target[1] >= arg.current
       /\ out.stop_loss[1] > out.entry_target[1]
       /\ RiskRewardPositive

\* a SHORT result with its entry above the current price
C23_Witness ==
  /\ pc = "done"
  /\ out.strategy_type = "SHORT"
  /\ out.entry_target[1] > arg.current
  /\ Len(out.exit_targets) = 3

\* C24: strategy_type is LONG, SHORT or WAIT and confidence HIGH, MEDIUM or
\* LOW; every WAIT result has confidence LOW, no exit targets, null entry,
\* stop and risk-reward ratio, and a timeframe that advises waiting for
\* clearer signals
C24_WaitResults ==
  pc = "done" =>
    /\ out.strategy_type \in {"LONG", "SHORT", "WAIT"}
    /\ out.confidence \in {"HIGH", "MEDIUM", "LOW"}
    /\ out.strategy_type = "WAIT" =>
         /\ out.confidence = "LOW"
         /\ out.exit_targets = <<>>
         /\ out.entry_target = <<>> /\ out.stop_loss = <<>>
         /\ out.risk_reward_ratio = <<>>
         /\ out.timeframe = WaitTimeframe

\* a WAIT result of the classification: a full series with mixed signals
\* that the analyst targets corroborate
C24_Witness ==
  /\ pc = "done"
  /\ ~NoUsableSeries
  /\ arg.corroborated
  /\ out.strategy_type = "WAIT" /\ out.error = ""
  /\ out.timeframe = WaitTimeframe

====
